---- MODULE Spec2Model ----
(***************************************************************************)
(* Viewport engine of the genome browser (GenomeBrowser.js, the variant    *)
(* that starts at line 972): the committed region zoomRegion, the d3 zoom  *)
(* transform stored on the detail svg, the React effects that keep the two *)
(* in step, and the handlers that propose regions.                         *)
(*                                                                         *)
(* Numbers.  JavaScript numbers are modelled as exact extended rationals:  *)
(* a pair <<n, d>> with d > 0 in lowest terms, or <<1, 0>> (+Infinity),    *)
(* <<-1, 0>> (-Infinity), <<0, 0>> (NaN).  Rounding error of IEEE doubles  *)
(* (about 1e-16 relative) and the sign of zero are not modelled.           *)
(***************************************************************************)
EXTENDS Integers, Sequences, FiniteSets, TLC

----------------------------------------------------------------------------
(* Extended rational arithmetic                                            *)

IAbs(i) == IF i < 0 THEN -i ELSE i

ISgn(i) == IF i < 0 THEN -1 ELSE IF i > 0 THEN 1 ELSE 0

RECURSIVE Gcd(_, _)
Gcd(a, b) == IF b = 0 THEN a ELSE Gcd(b, a % b)

R(n, d) ==
  IF d = 0 THEN <<ISgn(n), 0>>
  ELSE LET g == Gcd(IAbs(n), IAbs(d))
           s == IF d < 0 THEN -1 ELSE 1
       IN  <<(s * n) \div g, (s * d) \div g>>

Num(i) == <<i, 1>>

NaN == <<0, 0>>

PosInf == <<1, 0>>

IsNaN(a) == a = NaN

IsFinite(a) == a[2] # 0

Neg(a) == <<-a[1], a[2]>>

Add(a, b) ==
  IF a[2] = 0 /\ b[2] = 0
  THEN (IF a = b THEN a ELSE NaN)
  ELSE LET g == Gcd(a[2], b[2])
       IN  R(a[1] * (b[2] \div g) + b[1] * (a[2] \div g), (a[2] \div g) * b[2])

Sub(a, b) == Add(a, Neg(b))

Mul(a, b) ==
  LET g1 == Gcd(IAbs(a[1]), b[2])
      g2 == Gcd(IAbs(b[1]), a[2])
  IN  IF g1 = 0 \/ g2 = 0 THEN R(a[1] * b[1], a[2] * b[2])
      ELSE R((a[1] \div g1) * (b[1] \div g2), (a[2] \div g2) * (b[2] \div g1))

Inv(a) ==
  IF a[1] = 0 THEN (IF a[2] = 0 THEN NaN ELSE PosInf)
  ELSE IF a[2] = 0 THEN Num(0)
  ELSE R(a[2], a[1])

Div(a, b) == Mul(a, Inv(b))

\* a < b as JavaScript evaluates it: false when either side is NaN
Lt(a, b) ==
  /\ ~IsNaN(a)
  /\ ~IsNaN(b)
  /\ IF a[2] = 0 /\ b[2] = 0 THEN a[1] < b[1]
     ELSE LET g == Gcd(a[2], b[2])
          IN  IF g = 0 THEN a[1] * b[2] < b[1] * a[2]
              ELSE a[1] * (b[2] \div g) < b[1] * (a[2] \div g)

Gt(a, b) == Lt(b, a)

Le(a, b) == ~IsNaN(a) /\ ~IsNaN(b) /\ (a = b \/ Lt(a, b))

Ge(a, b) == Le(b, a)

MathAbs(a) == <<IAbs(a[1]), a[2]>>

MathMax(a, b) ==
  IF IsNaN(a) \/ IsNaN(b) THEN NaN ELSE IF Lt(a, b) THEN b ELSE a

MathMin(a, b) ==
  IF IsNaN(a) \/ IsNaN(b) THEN NaN ELSE IF Lt(b, a) THEN b ELSE a

\* Math.round: nearest integer, halves towards +Infinity
MathRound(a) ==
  IF a[2] = 0 THEN a ELSE Num((2 * a[1] + a[2]) \div (2 * a[2]))

----------------------------------------------------------------------------
(* Chromosome, window and layout                                           *)

realChromosomeLength == 720

innerWidth == 360

marginLeft == 60

marginRight == 60

Len0 == Num(realChromosomeLength)

Half == R(1, 2)

One == Num(1)

Zero == Num(0)

\* the region every reset asks for
FullRegion == <<Zero, Len0>>

\* d3.zoomIdentity
zoomIdentity == [k |-> One, x |-> Zero]

\* x = d3.scaleLinear().domain([0, length]).range([margin.left,
\* width - margin.left - margin.right]), as built by the zoom handler and
\* by the synchronising effect from width = window.innerWidth
xRangeLo == Num(marginLeft)

xRangeHi(width) == Num(width - marginLeft - marginRight)

xScale(width, v) ==
  Add(xRangeLo, Mul(Div(v, Len0), Sub(xRangeHi(width), xRangeLo)))

\* x.invert over a range that ends at width - margin.right
xInvertToRightMargin(width, p) ==
  Mul(Div(Sub(p, xRangeLo), Sub(Num(width - marginRight), xRangeLo)), Len0)

xInvert(width, p) ==
  Mul(Div(Sub(p, xRangeLo), Sub(xRangeHi(width), xRangeLo)), Len0)

\* transform.invertX
invertX(t, p) == Div(Sub(p, t.x), t.k)

\* t.rescaleX(x).domain()
\* the domain read over the pixels of the zoom extent instead
rescaleXDomainOverExtent(width, t) ==
  <<xInvert(width, invertX(t, xRangeLo)),
    xInvert(width, invertX(t, Num(width - marginRight)))>>

rescaleXDomain(width, t) ==
  <<xInvert(width, invertX(t, xRangeLo)),
    xInvert(width, invertX(t, xRangeHi(width)))>>

----------------------------------------------------------------------------
(* Region <-> transform                                                    *)

\* the zoom handler's newRegion: rescale, clamp, snap to the full view
\* newRegion before the snap: Math.max(0, d0), Math.min(length, d1)
zoomClamp(width, t) ==
  LET newDomain == rescaleXDomain(width, t)
  IN  <<MathMax(Zero, newDomain[1]), MathMin(Len0, newDomain[2])>>

\* the handler without its snap to the full view
zoomNewRegionNoSnap(width, t) == zoomClamp(width, t)

zoomNewRegion(width, t) ==
  LET clamped == zoomClamp(width, t)
  IN  IF Le(clamped[1], Add(Zero, One)) /\ Ge(clamped[2], Sub(Len0, One))
      THEN <<Zero, Len0>>
      ELSE clamped

\* setZoomRegion(prev => ...) of the zoom handler: the 0.5 bp gate
\* the updater without its epsilon check
zoomGateAlways(newRegion, prev) == newRegion

zoomGate(newRegion, prev) ==
  IF \/ Gt(MathAbs(Sub(newRegion[1], prev[1])), Half)
     \/ Gt(MathAbs(Sub(newRegion[2], prev[2])), Half)
  THEN newRegion
  ELSE prev

\* the region left by one 'zoom' event carrying transform t
zoomHandler(width, t, prev) == zoomGate(zoomNewRegion(width, t), prev)

\* k and tx of the synchronising effect, as d3.zoomIdentity.translate(tx, 0).scale(k)
regionToTransform(width, region) ==
  LET k  == Div(Len0, Sub(region[2], region[1]))
      tx == Add(Mul(Neg(xScale(width, region[1])), k), Num(marginLeft))
  IN  [k |-> k, x |-> tx]

\* "Only update transform if not already at this zoom"
transformDiffers(cur, t) ==
  \/ Gt(MathAbs(Sub(cur.k, t.k)), R(1, 100))
  \/ Gt(MathAbs(Sub(cur.x, t.x)), Half)

----------------------------------------------------------------------------
(* d3.zoom gestures on the detail svg                                      *)

minZoom == 1

visiblePixels == Num(innerWidth - marginLeft - marginRight)

minBpWindow == Div(visiblePixels, Num(20))

maxZoom == Div(Len0, minBpWindow)

\* extent and translateExtent of the zoom behaviour (x only)
extentLo == Num(marginLeft)

extentHi == Num(innerWidth - marginRight)

\* d3-zoom's default constrain, for equal extent and translateExtent
constrain(t) ==
  LET dx0 == Sub(invertX(t, extentLo), extentLo)
      dx1 == Sub(invertX(t, extentHi), extentHi)
      lo  == MathMin(Zero, dx0)
      by  == IF Gt(dx1, dx0) THEN Div(Add(dx0, dx1), Num(2))
             ELSE IF lo = Zero \/ IsNaN(lo) THEN MathMax(Zero, dx1)
             ELSE lo
  IN  [k |-> t.k, x |-> Add(t.x, Mul(t.k, by))]

\* scaleExtent applied to a wheel factor
wheelScale(t, f) ==
  MathMax(Num(minZoom), MathMin(maxZoom, Mul(t.k, f)))

\* the transform a wheel event at pointer p leaves
wheelTransform(t, f, p) ==
  LET k1 == wheelScale(t, f)
      p1 == invertX(t, p)
  IN  constrain([k |-> k1, x |-> Sub(p, Mul(p1, k1))])

\* the transform a mouse pan by dx pixels leaves
panTransform(t, dx) == constrain([k |-> t.k, x |-> Add(t.x, dx)])

\* one frame of the reset transition, half way between the view of a and
\* the identity view (d3.interpolateZoom follows a curved path between the
\* same two views; the straight one is used here)
transitionFrame(a) ==
  LET p  == Div(Add(extentLo, extentHi), Num(2))
      w  == Sub(extentHi, extentLo)
      u0 == invertX(a, p)
      w0 == Div(w, a.k)
      u  == Div(Add(u0, p), Num(2))
      wm == Div(Add(w0, w), Num(2))
      k  == Div(w, wm)
  IN  [k |-> k, x |-> Sub(p, Mul(u, k))]

----------------------------------------------------------------------------
(* Overview and detail scales of the draw effect                           *)

xOverview(v) ==
  Add(Num(marginLeft), Mul(Div(v, Len0), visiblePixels))

xOverviewInvert(p) ==
  Mul(Div(Sub(p, Num(marginLeft)), visiblePixels), Len0)

\* xDetail.invert for xDetail = scaleLinear().domain(region).range([60, W - 60])
xDetailInvert(region, p) ==
  Add(region[1],
      Mul(Div(Sub(p, Num(marginLeft)), visiblePixels), Sub(region[2], region[1])))

isFullView(region) ==
  Le(region[1], Add(Zero, One)) /\ Ge(region[2], Sub(Len0, One))

----------------------------------------------------------------------------
(* Handlers that propose a region                                          *)

\* handleZoomBarChange for zoom = Math.pow(10, logZoom)
\* the slider handler without Math.round
zoomBarRegionUnrounded(zoom, region) ==
  LET center     == Div(Add(region[1], region[2]), Num(2))
      regionSize == Div(Len0, zoom)
  IN  <<MathMax(Zero, Sub(center, Div(regionSize, Num(2)))),
        MathMin(Len0, Add(center, Div(regionSize, Num(2))))>>

zoomBarRegion(zoom, region) ==
  LET center     == Div(Add(region[1], region[2]), Num(2))
      regionSize == Div(Len0, zoom)
      newStart0  == MathMax(Zero, MathRound(Sub(center, Div(regionSize, Num(2)))))
      newEnd0    == MathMin(Len0, MathRound(Add(center, Div(regionSize, Num(2)))))
      newEnd1    == IF Lt(newStart0, Zero) THEN Add(newEnd0, Sub(Zero, newStart0))
                    ELSE newEnd0
      newStart1  == IF Lt(newStart0, Zero) THEN Zero ELSE newStart0
      newStart2  == IF Gt(newEnd1, Len0) THEN Sub(newStart1, Sub(newEnd1, Len0))
                    ELSE newStart1
      newEnd2    == IF Gt(newEnd1, Len0) THEN Len0 ELSE newEnd1
  IN  <<newStart2, newEnd2>>

\* a number after JSON.stringify and JSON.parse: NaN and the infinities are
\* written as null, which the arithmetic of the listener reads as 0
jsonNumber(v) == IF IsFinite(v) THEN v ELSE Zero

\* a listener that takes the region of the moment of the event
panCurrentZoom(captured, current) == current

\* startZoom of the 'drag' listener of dragChromosome: the data-start-zoom
\* attribute written at 'start', parsed
panStartZoom(captured, current) ==
  <<jsonNumber(captured[1]), jsonNumber(captured[2])>>

\* a 'drag' listener that shifts the region and does not bring it back
\* inside the chromosome
panRegionUnclamped(startZoom, deltaX) ==
  LET bpShift == Mul(deltaX, Div(Sub(startZoom[2], startZoom[1]), visiblePixels))
  IN  <<Sub(startZoom[1], bpShift), Sub(startZoom[2], bpShift)>>

\* the 'drag' listener of dragChromosome: shift by the total pixel delta
panRegion(startZoom, deltaX) ==
  LET bpPerPixel == Div(Sub(startZoom[2], startZoom[1]), visiblePixels)
      bpShift    == Mul(deltaX, bpPerPixel)
      newStart0  == Sub(startZoom[1], bpShift)
      newEnd0    == Sub(startZoom[2], bpShift)
      newEnd1    == IF Lt(newStart0, Zero) THEN Add(newEnd0, Sub(Zero, newStart0))
                    ELSE newEnd0
      newStart1  == IF Lt(newStart0, Zero) THEN Zero ELSE newStart0
      newStart2  == IF Gt(newEnd1, Len0) THEN Sub(newStart1, Sub(newEnd1, Len0))
                    ELSE newStart1
      newEnd2    == IF Gt(newEnd1, Len0) THEN Len0 ELSE newEnd1
  IN  <<newStart2, newEnd2>>

\* the 'end' listener of scaleBrush for a user selection [x0, x1]:
\* the region it proposes, or the region it leaves
\* a brush that also accepts a selection of exactly 5 px
brushAcceptedFromFive(x0, x1) == Ge(MathAbs(Sub(x1, x0)), Num(5))

\* "Only process if it's a real selection (not just a click)"
brushAccepted(x0, x1) == Gt(MathAbs(Sub(x1, x0)), Num(5))

brushRegion(region, x0, x1) ==
  IF brushAccepted(x0, x1)
  THEN <<xDetailInvert(region, x0), xDetailInvert(region, x1)>>
  ELSE region

\* the 'drag' listener of dragZoomRect: the new x of the rectangle
zoomRectNewX(eventX, offset, width) ==
  LET off       == IF offset = Zero \/ IsNaN(offset) THEN Zero ELSE offset
      adjustedX == Sub(eventX, off)
      minX      == Num(marginLeft)
      maxX      == Sub(Num(innerWidth - marginRight), width)
  IN  MathMax(minX, MathMin(maxX, adjustedX))

zoomRectRegion(newX, width) ==
  <<xOverviewInvert(newX), xOverviewInvert(Add(newX, width))>>

\* a gate that lets a rectangle move 12 bp without a commit
zoomRectGateWide(newRegion, closureRegion) ==
  \/ Gt(MathAbs(Sub(newRegion[1], closureRegion[1])), Num(12))
  \/ Gt(MathAbs(Sub(newRegion[2], closureRegion[2])), Num(12))

\* "Update zoom region if significantly different"
zoomRectGate(newRegion, closureRegion) ==
  \/ Gt(MathAbs(Sub(newRegion[1], closureRegion[1])), One)
  \/ Gt(MathAbs(Sub(newRegion[2], closureRegion[2])), One)

----------------------------------------------------------------------------
(* Text of the editable position fields                                    *)

Digits == <<"0", "1", "2", "3", "4", "5", "6", "7", "8", "9">>

IsDigit(c) == \E i \in 1..10 : Digits[i] = c

DigitVal(c) == (CHOOSE i \in 1..10 : Digits[i] = c) - 1

RECURSIVE NatToString(_)
NatToString(n) ==
  IF n < 10 THEN <<Digits[n + 1]>>
  ELSE Append(NatToString(n \div 10), Digits[(n % 10) + 1])

\* Math.round(v).toString()
roundToString(v) ==
  LET r == MathRound(v)
  IN  IF IsNaN(r) THEN <<"N", "a", "N">>
      ELSE IF ~IsFinite(r)
           THEN (IF r = PosInf THEN <<"I">> ELSE <<"-", "I">>)
      ELSE IF r[1] < 0 THEN <<"-">> \o NatToString(-r[1])
      ELSE NatToString(r[1])

\* text.replace(/,/g, '')
RECURSIVE removeCommas(_)
removeCommas(text) ==
  IF text = <<>> THEN <<>>
  ELSE IF Head(text) = "," THEN removeCommas(Tail(text))
  ELSE <<Head(text)>> \o removeCommas(Tail(text))

RECURSIVE skipSpaces(_)
skipSpaces(text) ==
  IF text # <<>> /\ Head(text) = " " THEN skipSpaces(Tail(text)) ELSE text

\* value of the longest prefix of digits, given the value read so far
RECURSIVE digitsValue(_, _)
digitsValue(text, acc) ==
  IF text = <<>> \/ ~IsDigit(Head(text)) THEN acc
  ELSE digitsValue(Tail(text), 10 * acc + DigitVal(Head(text)))

\* parseInt(text) for decimal text: optional blanks, optional sign, digits
parseInt(text) ==
  LET t      == skipSpaces(text)
      signed == t # <<>> /\ Head(t) \in {"-", "+"}
      body   == IF signed THEN Tail(t) ELSE t
      v      == digitsValue(body, 0)
  IN  IF body = <<>> \/ ~IsDigit(Head(body)) THEN NaN
      ELSE IF signed /\ Head(t) = "-" THEN Num(-v)
      ELSE Num(v)

\* handlePositionSubmit
positionRegion(startText, endText, region) ==
  LET regionStart == MathRound(region[1])
      regionEnd   == MathRound(region[2])
      start0 == parseInt(removeCommas(startText))
      end0   == parseInt(removeCommas(endText))
      start1 == IF IsNaN(start0) THEN regionStart ELSE start0
      end1   == IF IsNaN(end0) THEN regionEnd ELSE end0
      start2 == IF Gt(start1, end1) THEN end1 ELSE start1
      end2   == IF Gt(start1, end1) THEN start1 ELSE end1
      start3 == MathMax(Zero, MathMin(Len0, start2))
      end3   == MathMax(Zero, MathMin(Len0, end2))
      end4   == IF Lt(Sub(end3, start3), Num(10))
                THEN MathMin(Len0, Add(start3, Num(10)))
                ELSE end3
  IN  <<start3, end4>>

----------------------------------------------------------------------------
(* Inputs                                                                  *)

\* how many input events one behaviour holds; a drag gesture is one event
MaxEvents == 2

\* how many 'drag' events one drag gesture holds
MaxDragEvents == 2

WheelFactors == {R(1, 2), Num(2), Num(16)}

WheelPointers == {Num(60), Num(180), Num(300)}

MousePanDeltas == {Num(-240), Num(-4), Num(60)}

\* selections [x0, x1] of the brush, in pixels
BrushSelections ==
  { <<Num(60), Num(65)>>, <<Num(60), Num(66)>>, <<Num(60), Num(180)>>,
    <<Num(120), Num(240)>>, <<Num(180), Num(300)>>, <<Num(60), Num(300)>> }

\* pointer x at which a drag of the chromosome bar starts
DragStartXs == {Num(180)}

\* total pointer displacement of a drag event, in pixels
DragDeltas == {Num(-240), Num(-60), Num(-4), Num(0), Num(60)}

\* pointer displacements of a drag of the overview rectangle: a quarter of a
\* pixel is less than 1 bp
RectDragDeltas == DragDeltas \cup {R(1, 4)}

\* Math.pow(10, logZoom) for slider positions 0, 0.30, 1, 1.77
ZoomBarFactors == {Num(1), R(399, 200), Num(10), R(1472, 25)}

StartTexts == {<<"1">>, <<"7", "2", "0">>, <<"a">>}

EndTexts == {<<"7", "1", "5">>, <<"1", "0", "0">>, <<"1", ",", "0", "0", "0">>}

GenesA ==
  << [id |-> "g1", start |-> 100, end |-> 220, strand |-> "+"],
     [id |-> "g2", start |-> 400, end |-> 405, strand |-> "-"] >>

GeneCollections == {<<>>, GenesA}

\* a collection that keeps g2, at another index, and replaces g1
GenesB ==
  << [id |-> "g3", start |-> 600, end |-> 700, strand |-> "+"],
     [id |-> "g2", start |-> 400, end |-> 405, strand |-> "-"] >>

\* the collections of the runs with pointer events
PointerGeneCollections == GeneCollections \cup {GenesB}

----------------------------------------------------------------------------
(* Gene visibility                                                         *)

\* default of the 'buffer' parameter of getVisibleGenes
defaultBuffer == R(1, 5)

\* gene => gene.start <= visibleEnd && gene.end >= visibleStart
geneInWindow(gene, visibleStart, visibleEnd) ==
  /\ Le(Num(gene.start), visibleEnd)
  /\ Ge(Num(gene.end), visibleStart)

\* a visibility query that ignores the buffer
getVisibleGenesNoBuffer(gs, start, end, buffer) ==
  LET keep(gene) == geneInWindow(gene, start, end)
  IN  SelectSeq(gs, keep)

\* getVisibleGenes(genes, start, end, buffer)
getVisibleGenes(gs, start, end, buffer) ==
  LET bufferAmount == Mul(Sub(end, start), buffer)
      visibleStart == MathMax(Zero, Sub(start, bufferAmount))
      visibleEnd   == Add(end, bufferAmount)
      keep(gene)   == geneInWindow(gene, visibleStart, visibleEnd)
  IN  SelectSeq(gs, keep)

\* the genes of one strand, in the order of the collection
ofStrand(gs, strand) ==
  LET keep(gene) == gene.strand = strand
  IN  SelectSeq(gs, keep)

\* the draw effect for realChromosome.genes = gs and zoomRegion = region: the
\* projection it builds, the genes of the overview and of the two detail rows
draw(gs, region) ==
  [region   |-> region,
   rectX    |-> IF isFullView(region) THEN Num(marginLeft) ELSE xOverview(region[1]),
   rectWidth |-> IF isFullView(region) THEN visiblePixels
                 ELSE Sub(xOverview(region[2]), xOverview(region[1])),
   overview |-> gs,
   plus     |-> ofStrand(getVisibleGenes(gs, region[1], region[2], defaultBuffer), "+"),
   minus    |-> ofStrand(getVisibleGenes(gs, region[1], region[2], defaultBuffer), "-")]

----------------------------------------------------------------------------
(* State                                                                   *)

VARIABLES
  zoomRegion,      \* useState zoomRegion: <<start, end>>
  transform,       \* d3.zoomTransform(detailRef.current): [k, x]
  effectsPending,  \* a render with a new zoomRegion waits for its effects
  transition,      \* the reset transition on the detail svg
  editableStart,   \* text of the start field
  editableEnd,     \* text of the end field
  drag,            \* the d3.drag gesture in progress and what it captured
  genes,           \* the genes prop
  nEvents,         \* region-proposing input events so far
  lastEvent,       \* the last input event: its kind, the region before it, its arguments
  committedBy,     \* the path that stored the current zoomRegion
  effectRuns,      \* runs of the effects since the last event
  brushSelection,  \* the selection the scale brush shows: <<x0, x1>> or <<>>
  drawn,           \* what the draw effect rendered last
  redrawPending,   \* a render with a new selectedGene or hoveredGene waits for the draw effect
  selectedGene,    \* useState selectedGene: a gene or NoGene
  hoveredGene,     \* useState hoveredGene: a gene or NoGene
  inThrottle,      \* inThrottle of throttledSetHoveredGene
  pointerAt,       \* the element the pointer is over, and its gene
  lastPointer,     \* the last pointer event on a track: its kind, its target, the state before it
  fnIn,            \* argument of the pure function under study
  fnOut,           \* its result
  chat             \* ChatbotWidget: messages, input, loading and the request in flight

vars ==
  <<zoomRegion, transform, effectsPending, transition, editableStart,
    editableEnd, drag, genes, nEvents, lastEvent, committedBy, effectRuns,
    brushSelection, drawn, redrawPending, selectedGene, hoveredGene,
    inThrottle, pointerAt, lastPointer, fnIn, fnOut, chat>>

\* the variables the engine's handlers never touch
fnVars == <<fnIn, fnOut, chat>>

\* selection, hover and the pointer history
uiVars ==
  <<redrawPending, selectedGene, hoveredGene, inThrottle, pointerAt, lastPointer>>

\* what the draw effect and the brush put on the screen
viewVars == <<brushSelection, drawn>>

\* null of selectedGene and hoveredGene
NoGene == [id |-> "none", start |-> 0, end |-> 0, strand |-> "+"]

\* no brush selection
NoSelection == <<>>

\* the pointer is over neither track
Outside == [target |-> "outside", gene |-> NoGene]

\* cap of the effectRuns counter
MaxEffectRuns == 6

NoDrag ==
  [kind |-> "none", region |-> FullRegion, startX |-> Zero, rectX |-> Zero,
   width |-> Zero, offset |-> Zero, moves |-> 0, attached |-> FALSE]

\* every redraw removes the elements of both svgs: a gesture in progress goes
\* on with the element it started on, which is no longer in the document
detached(d) == [d EXCEPT !.attached = FALSE]

Event(op, a, b) == [op |-> op, pre |-> zoomRegion, a |-> a, b |-> b]

----------------------------------------------------------------------------
(* ChatbotWidget: its state                                                *)

\* a message of the list: { sender, text }
Message(sender, text) == [sender |-> sender, text |-> text]

\* "Hello! I can help answer questions about the genome you're viewing."
Greeting == <<"Hello!">>

\* no request in flight
NoRequest == [phase |-> "idle", outcome |-> <<>>]

\* useState of messages, input and loading when the widget mounts; 'calls'
\* counts the calls of sendMessage
ChatMounted ==
  [messages |-> <<Message("bot", Greeting)>>, input |-> <<>>, loading |-> FALSE,
   request |-> NoRequest, calls |-> 0]

InitEngine ==
  /\ zoomRegion = FullRegion
  /\ transform = zoomIdentity
  /\ effectsPending = FALSE
  /\ transition = "none"
  /\ editableStart = roundToString(FullRegion[1])
  /\ editableEnd = roundToString(FullRegion[2])
  /\ drag = NoDrag
  /\ genes = <<>>
  /\ nEvents = 0
  /\ lastEvent = [op |-> "mount", pre |-> FullRegion, a |-> Zero, b |-> Zero]
  /\ committedBy = "mount"
  /\ effectRuns = 0
  /\ brushSelection = NoSelection
  /\ drawn = draw(<<>>, FullRegion)
  /\ redrawPending = FALSE
  /\ selectedGene = NoGene
  /\ hoveredGene = NoGene
  /\ inThrottle = FALSE
  /\ pointerAt = Outside
  /\ lastPointer = [op |-> "none", target |-> "none", gene |-> NoGene,
                    selected |-> NoGene, hovered |-> NoGene, throttled |-> FALSE,
                    applied |-> 0]
  /\ chat = ChatMounted

Init ==
  /\ InitEngine
  /\ fnIn = <<>>
  /\ fnOut = <<>>

\* an input event can be handled: the effects of the last render have run
Idle == ~effectsPending /\ ~redrawPending

CanPropose == Idle /\ nEvents < MaxEvents

\* setZoomRegion(value): a new array always starts a render and its effects
Commit(path, region) ==
  /\ zoomRegion' = region
  /\ effectsPending' = TRUE
  /\ committedBy' = path
  /\ effectRuns' = 0

\* an event that proposes no region
NoCommit ==
  /\ UNCHANGED <<zoomRegion, effectsPending, committedBy>>
  /\ effectRuns' = 0

\* setZoomRegion(prev => ...) of the zoom handler after transform t was stored
ZoomEvent(t) ==
  /\ transform' = t
  /\ zoomRegion' = zoomHandler(innerWidth, t, zoomRegion)
  /\ effectsPending' = (zoomRegion' # zoomRegion)
  /\ committedBy' = IF zoomRegion' # zoomRegion THEN "zoom" ELSE committedBy
  /\ effectRuns' = 0

----------------------------------------------------------------------------
(* Effects of a render with a new zoomRegion                               *)

\* the effects without the one that rewrites the editable fields
RunEffectsKeepingText ==
  /\ effectsPending
  /\ LET t       == regionToTransform(innerWidth, zoomRegion)
         differs == transformDiffers(transform, t)
     IN  /\ transform' = IF differs THEN t ELSE transform
         /\ zoomRegion' = IF differs THEN zoomHandler(innerWidth, t, zoomRegion)
                          ELSE zoomRegion
         /\ transition' = IF differs THEN "none" ELSE transition
  /\ effectsPending' = (zoomRegion' # zoomRegion)
  /\ committedBy' = IF zoomRegion' # zoomRegion THEN "zoom" ELSE committedBy
  /\ effectRuns' = IF effectRuns < MaxEffectRuns THEN effectRuns + 1 ELSE effectRuns
  /\ UNCHANGED <<editableStart, editableEnd>>
  /\ drawn' = draw(genes, zoomRegion)
  /\ brushSelection' = NoSelection
  /\ drag' = detached(drag)
  /\ UNCHANGED <<genes, nEvents, lastEvent, fnVars, uiVars>>

\* the synchronising effect (with the 'zoom' event its zoom.transform call
\* dispatches), the effect that rewrites the editable fields, and the draw
\* effect, in the order the component declares them
RunEffects ==
  /\ effectsPending
  /\ LET t       == regionToTransform(innerWidth, zoomRegion)
         differs == transformDiffers(transform, t)
     IN  /\ transform' = IF differs THEN t ELSE transform
         /\ zoomRegion' = IF differs THEN zoomHandler(innerWidth, t, zoomRegion)
                          ELSE zoomRegion
         /\ transition' = IF differs THEN "none" ELSE transition
  /\ effectsPending' = (zoomRegion' # zoomRegion)
  /\ committedBy' = IF zoomRegion' # zoomRegion THEN "zoom" ELSE committedBy
  /\ effectRuns' = IF effectRuns < MaxEffectRuns THEN effectRuns + 1 ELSE effectRuns
  /\ editableStart' = roundToString(zoomRegion[1])
  /\ editableEnd' = roundToString(zoomRegion[2])
  /\ drawn' = draw(genes, zoomRegion)
  /\ brushSelection' = NoSelection
  /\ drag' = detached(drag)
  /\ UNCHANGED <<genes, nEvents, lastEvent, fnVars, uiVars>>

----------------------------------------------------------------------------
(* Gestures of d3.zoom                                                     *)

Wheel(f, p) ==
  /\ CanPropose
  /\ drag.kind = "none"
  /\ wheelScale(transform, f) # transform.k
  /\ ZoomEvent(wheelTransform(transform, f, p))
  /\ transition' = "none"
  /\ nEvents' = nEvents + 1
  /\ lastEvent' = Event("wheel", f, p)
  /\ UNCHANGED <<fnVars, uiVars, viewVars, editableStart, editableEnd, drag, genes>>

MousePan(dx) ==
  /\ CanPropose
  /\ drag.kind = "none"
  /\ ZoomEvent(panTransform(transform, dx))
  /\ transition' = "none"
  /\ nEvents' = nEvents + 1
  /\ lastEvent' = Event("mousepan", dx, Zero)
  /\ UNCHANGED <<fnVars, uiVars, viewVars, editableStart, editableEnd, drag, genes>>

\* a frame of the reset transition before its last one
TransitionFrame ==
  /\ Idle
  /\ transition = "scheduled"
  /\ ZoomEvent(transitionFrame(transform))
  /\ transition' = "running"
  /\ UNCHANGED <<fnVars, uiVars, viewVars, editableStart, editableEnd, drag, genes, nEvents, lastEvent>>

\* the last frame of the reset transition: t = 1 stores the target itself
TransitionEnd ==
  /\ Idle
  /\ transition \in {"scheduled", "running"}
  /\ ZoomEvent(zoomIdentity)
  /\ transition' = "none"
  /\ UNCHANGED <<fnVars, uiVars, viewVars, editableStart, editableEnd, drag, genes, nEvents, lastEvent>>

----------------------------------------------------------------------------
(* Brush on the scale band                                                 *)

\* 'end' of a user brush with selection [x0, x1]; a selection of 5 px or
\* less is ignored
BrushEnd(x0, x1) ==
  /\ CanPropose
  /\ drag.kind = "none"
  /\ Lt(x0, x1)
  /\ IF brushAccepted(x0, x1)
     THEN /\ Commit("brush", brushRegion(drawn.region, x0, x1))
          /\ brushSelection' = NoSelection
     ELSE /\ NoCommit
          /\ brushSelection' = <<x0, x1>>
  /\ nEvents' = nEvents + 1
  /\ lastEvent' = Event("brush", x0, x1)
  /\ UNCHANGED <<fnVars, uiVars, drawn, transform, transition, editableStart, editableEnd, drag, genes>>

----------------------------------------------------------------------------
(* Pan by dragging the chromosome bar                                      *)

\* 'start' of dragChromosome: data-start-x and data-start-zoom
PanStart(x) ==
  /\ CanPropose
  /\ drag.kind = "none"
  /\ drag' = [NoDrag EXCEPT !.kind = "chr", !.region = zoomRegion, !.startX = x]
  /\ NoCommit
  /\ nEvents' = nEvents + 1
  /\ lastEvent' = Event("panstart", x, Zero)
  /\ UNCHANGED <<fnVars, uiVars, viewVars, transform, transition, editableStart, editableEnd, genes>>

\* 'drag' of dragChromosome with the pointer d pixels from where it started
PanDrag(d) ==
  /\ Idle
  /\ drag.kind = "chr"
  /\ drag.moves < MaxDragEvents
  /\ Commit("pan", panRegion(panStartZoom(drag.region, zoomRegion),
                           Sub(Add(drag.startX, d), drag.startX)))
  /\ drag' = [drag EXCEPT !.moves = @ + 1]
  /\ lastEvent' = Event("pan", d, Zero)
  /\ UNCHANGED <<fnVars, uiVars, viewVars, transform, transition, editableStart, editableEnd, genes, nEvents>>

----------------------------------------------------------------------------
(* Drag of the overview indicator                                          *)

\* 'start' of dragZoomRect; the behaviour is attached only outside the full
\* view, and the pointer is taken at the middle of the rectangle
ZoomRectStart ==
  /\ CanPropose
  /\ drag.kind = "none"
  /\ ~isFullView(zoomRegion)
  /\ LET rectX == xOverview(zoomRegion[1])
         width == Sub(xOverview(zoomRegion[2]), xOverview(zoomRegion[1]))
         x     == Add(rectX, Div(width, Num(2)))
     IN  /\ Gt(width, Zero)
         /\ drag' = [kind |-> "rect", region |-> zoomRegion, startX |-> x,
                     rectX |-> rectX, width |-> width, offset |-> Sub(x, rectX),
                     moves |-> 0, attached |-> TRUE]
         /\ lastEvent' = Event("rectstart", x, Zero)
  /\ NoCommit
  /\ nEvents' = nEvents + 1
  /\ UNCHANGED <<fnVars, uiVars, viewVars, transform, transition, editableStart, editableEnd, genes>>

\* 'drag' of dragZoomRect with the pointer d pixels from where it started
ZoomRectDrag(d) ==
  /\ Idle
  /\ drag.kind = "rect"
  /\ drag.moves < MaxDragEvents
  /\ ~isFullView(drag.region)
  /\ LET newX      == zoomRectNewX(Add(drag.startX, d), drag.offset, drag.width)
         newRegion == zoomRectRegion(newX, drag.width)
     IN  /\ drag' = [drag EXCEPT !.rectX = newX, !.moves = @ + 1]
         /\ drawn' = IF drag.attached THEN [drawn EXCEPT !.rectX = newX]
                      ELSE drawn
         /\ IF zoomRectGate(newRegion, drag.region)
            THEN Commit("rect", newRegion)
            ELSE NoCommit
  /\ lastEvent' = Event("rect", d, Zero)
  /\ UNCHANGED <<fnVars, uiVars, brushSelection, transform, transition, editableStart, editableEnd, genes, nEvents>>

\* 'end' of either drag behaviour
DragEnd ==
  /\ Idle
  /\ drag.kind # "none"
  /\ drag' = NoDrag
  /\ UNCHANGED <<zoomRegion, transform, effectsPending, committedBy, effectRuns, fnVars, uiVars, viewVars, transition,
                 editableStart, editableEnd, genes, nEvents, lastEvent>>

----------------------------------------------------------------------------
(* Slider, position form, reset, genes                                     *)

HandleZoomBarChange(zoom) ==
  /\ CanPropose
  /\ drag.kind = "none"
  /\ Commit("slider", zoomBarRegion(zoom, zoomRegion))
  /\ nEvents' = nEvents + 1
  /\ lastEvent' = Event("slider", zoom, Zero)
  /\ UNCHANGED <<fnVars, uiVars, viewVars, transform, transition, editableStart, editableEnd, drag, genes>>

HandleStartInputChange(text) ==
  /\ CanPropose
  /\ drag.kind = "none"
  /\ editableStart' = text
  /\ UNCHANGED <<zoomRegion, transform, effectsPending, committedBy, effectRuns, fnVars, uiVars, viewVars, transition,
                 editableEnd, drag, genes, nEvents, lastEvent>>

HandleEndInputChange(text) ==
  /\ CanPropose
  /\ drag.kind = "none"
  /\ editableEnd' = text
  /\ UNCHANGED <<zoomRegion, transform, effectsPending, committedBy, effectRuns, fnVars, uiVars, viewVars, transition,
                 editableStart, drag, genes, nEvents, lastEvent>>

HandlePositionSubmit ==
  /\ CanPropose
  /\ drag.kind = "none"
  /\ Commit("form", positionRegion(editableStart, editableEnd, zoomRegion))
  /\ nEvents' = nEvents + 1
  /\ lastEvent' = Event("form", zoomRegion'[1], zoomRegion'[2])
  /\ UNCHANGED <<fnVars, uiVars, viewVars, transform, transition, editableStart, editableEnd, drag, genes>>

\* a reset that stops one base short of the end
ResetRegionOffByOne ==
  /\ Commit("reset", <<Zero, Sub(Len0, One)>>)
  /\ transition' = "scheduled"

\* setZoomRegion([0, length]) and the transition to d3.zoomIdentity
ResetRegion ==
  /\ Commit("reset", FullRegion)
  /\ transition' = "scheduled"

\* a Reset button that clears the selection as well
HandleResetViewClearing ==
  /\ CanPropose
  /\ drag.kind = "none"
  /\ ResetRegion
  /\ nEvents' = nEvents + 1
  /\ lastEvent' = Event("reset", Zero, Zero)
  /\ selectedGene' = NoGene
  /\ UNCHANGED <<fnVars, redrawPending, hoveredGene, inThrottle, pointerAt,
                 lastPointer, viewVars, transform, editableStart, editableEnd,
                 drag, genes>>

HandleResetView ==
  /\ CanPropose
  /\ drag.kind = "none"
  /\ ResetRegion
  /\ nEvents' = nEvents + 1
  /\ lastEvent' = Event("reset", Zero, Zero)
  /\ UNCHANGED <<fnVars, uiVars, viewVars, transform, editableStart, editableEnd, drag, genes>>

\* the dblclick.reset listener of the detail svg
DblclickReset ==
  /\ CanPropose
  /\ drag.kind = "none"
  /\ ResetRegion
  /\ nEvents' = nEvents + 1
  /\ lastEvent' = Event("dblclick", Zero, Zero)
  /\ UNCHANGED <<fnVars, uiVars, viewVars, transform, editableStart, editableEnd, drag, genes>>

\* the genes prop changes: useEffect on [genes]
GenesChange(g) ==
  /\ CanPropose
  /\ drag.kind = "none"
  /\ genes' = g
  /\ IF Len(g) > 0
     THEN ResetRegion
     ELSE NoCommit /\ UNCHANGED transition
  /\ nEvents' = nEvents + 1
  /\ lastEvent' = Event("genes", Zero, Zero)
  /\ UNCHANGED <<fnVars, uiVars, viewVars, transform, editableStart, editableEnd, drag>>

----------------------------------------------------------------------------

Next ==
  \/ RunEffects
  \/ \E f \in WheelFactors, p \in WheelPointers : Wheel(f, p)
  \/ \E dx \in MousePanDeltas : MousePan(dx)
  \/ TransitionFrame
  \/ TransitionEnd
  \/ \E sel \in BrushSelections : BrushEnd(sel[1], sel[2])
  \/ \E x \in DragStartXs : PanStart(x)
  \/ \E d \in DragDeltas : PanDrag(d)
  \/ ZoomRectStart
  \/ \E d \in RectDragDeltas : ZoomRectDrag(d)
  \/ DragEnd
  \/ \E zoom \in ZoomBarFactors : HandleZoomBarChange(zoom)
  \/ \E text \in StartTexts : HandleStartInputChange(text)
  \/ \E text \in EndTexts : HandleEndInputChange(text)
  \/ HandlePositionSubmit
  \/ HandleResetView
  \/ DblclickReset
  \/ \E g \in GeneCollections : GenesChange(g)

Spec == Init /\ [][Next]_vars

----------------------------------------------------------------------------
(* Properties of the committed region                                      *)

\* an event has been fully processed: its effects have run and no
\* transition is left to run
Settled == Idle /\ transition = "none"

RegionStart == zoomRegion[1]
RegionEnd == zoomRegion[2]
RegionWidth == Sub(zoomRegion[2], zoomRegion[1])

\* C1: after any sequence of interactions the committed region satisfies
\* 0 <= start < end <= chromosome length
C1_RegionWithinChromosome ==
  /\ Le(Zero, RegionStart)
  /\ Lt(RegionStart, RegionEnd)
  /\ Le(RegionEnd, Len0)

\* C2: the committed region is never narrower than the 10 bp minimum
\* width, on any input path
C2_MinimumWidth == Ge(RegionWidth, Num(10))

Within(a, b, eps) ==
  /\ Le(MathAbs(Sub(a[1], b[1])), eps)
  /\ Le(MathAbs(Sub(a[2], b[2])), eps)

\* C4: once an event is fully processed, the region reconstructed from
\* the stored transform is within 0.5 bp of the committed region
C4_TransformMatchesRegion ==
  Settled => Within(zoomNewRegion(innerWidth, transform), zoomRegion, Half)

\* C5: once a Reset (button or double-click on the detail view) has
\* settled, the region is [0, length] and the transform is the identity
C5_ResetSettlesFull ==
  (lastEvent.op \in {"reset", "dblclick"} /\ Settled)
    => (zoomRegion = <<Zero, Len0>> /\ transform = zoomIdentity)

\* a reset from a zoomed view has settled
C5_Witness ==
  /\ lastEvent.op \in {"reset", "dblclick"}
  /\ Settled
  /\ lastEvent.pre # <<Zero, Len0>>
  /\ effectRuns >= 1
  /\ zoomRegion = <<Zero, Len0>>

----------------------------------------------------------------------------
(* Round trip region -> transform -> region as a function of its inputs    *)

RoundTripWidths == {320, 360, 500}

RoundTripStarts ==
  {Num(0), R(1, 4), R(1, 2), R(3, 4), Num(1), R(5, 4), Num(100), Num(709),
   R(2875, 4)}

RoundTripEnds ==
  {Num(10), R(21, 2), Num(110), Num(718), R(2875, 4), Num(719), R(2877, 4),
   R(1439, 2), R(2879, 4), Num(720)}

\* the in-bounds regions: 0 <= start < end <= length
RoundTripInputs ==
  {in \in [width : RoundTripWidths,
           region : RoundTripStarts \X RoundTripEnds] :
     Lt(in.region[1], in.region[2])}

roundTrip(width, region) == zoomNewRegion(width, regionToTransform(width, region))

InitRoundTrip ==
  /\ InitEngine
  /\ fnIn \in RoundTripInputs
  /\ fnOut = <<>>

ApplyRoundTrip ==
  /\ fnOut = <<>>
  /\ fnOut' = roundTrip(fnIn.width, fnIn.region)
  /\ UNCHANGED <<zoomRegion, transform, effectsPending, transition,
                 editableStart, editableEnd, drag, genes, nEvents, lastEvent,
                 committedBy, effectRuns, uiVars, viewVars, fnIn, chat>>

SpecRoundTrip == InitRoundTrip /\ [][ApplyRoundTrip]_vars

----------------------------------------------------------------------------
(* Snap, epsilon check and slider                                          *)

\* a differs from b by more than 0.5 bp on at least one bound
DiffersByMoreThanHalf(a, b) ==
  \/ Gt(MathAbs(Sub(a[1], b[1])), Half)
  \/ Gt(MathAbs(Sub(a[2], b[2])), Half)

\* a step in which the zoom handler runs
ZoomHandlerStep ==
  \/ \E f \in WheelFactors, p \in WheelPointers : Wheel(f, p)
  \/ \E dx \in MousePanDeltas : MousePan(dx)
  \/ TransitionFrame
  \/ TransitionEnd
  \/ /\ RunEffects
     /\ transformDiffers(transform, regionToTransform(innerWidth, zoomRegion))

\* C7 as stated: every committed region with start within 1 bp of 0 and
\* end within 1 bp of the length is exactly [0, length], whatever the path
C7_SnapOnEveryPath == isFullView(zoomRegion) => zoomRegion = <<Zero, Len0>>

\* C7: when the zoom handler's clamped candidate has its start within
\* 1 bp of 0 and its end within 1 bp of the length, the handler proposes
\* exactly [0, length]: a region it stores within 1 bp of both extremes is
\* [0, length], and it stores [0, length] whenever that differs from the
\* stored region by more than 0.5 bp
C7_SnapInZoomHandler ==
  [][ZoomHandlerStep =>
       /\ (zoomRegion' # zoomRegion /\ isFullView(zoomRegion'))
            => zoomRegion' = <<Zero, Len0>>
       /\ (/\ isFullView(zoomClamp(innerWidth, transform'))
           /\ DiffersByMoreThanHalf(<<Zero, Len0>>, zoomRegion))
            => zoomRegion' = <<Zero, Len0>>]_vars

\* the form committed a region within 1 bp of the extremes and the zoom
\* handler, called by the synchronising effect, replaced it by [0, length]
C7_Witness ==
  /\ committedBy = "zoom"
  /\ lastEvent.op = "form"
  /\ isFullView(<<lastEvent.a, lastEvent.b>>)
  /\ <<lastEvent.a, lastEvent.b>> # <<Zero, Len0>>
  /\ zoomRegion = <<Zero, Len0>>

\* C8 as stated: on every path the stored region is replaced only by a
\* candidate that differs from it by more than 0.5 bp on a bound
C8_GateOnEveryPath ==
  [][zoomRegion' # zoomRegion => DiffersByMoreThanHalf(zoomRegion', zoomRegion)]_vars

\* C8: the zoom handler leaves the stored region as it is when its
\* candidate is within 0.5 bp of it on both bounds, and stores the
\* candidate when it differs by more than 0.5 bp on a bound
C8_GateInZoomHandler ==
  [][ZoomHandlerStep =>
       LET candidate == zoomNewRegion(innerWidth, transform')
       IN  IF DiffersByMoreThanHalf(candidate, zoomRegion)
           THEN zoomRegion' = candidate
           ELSE zoomRegion' = zoomRegion]_vars

\* a mouse pan moved the transform by less than 0.5 bp and the region was
\* left as it was
C8_Witness ==
  /\ lastEvent.op = "mousepan"
  /\ Idle
  /\ effectRuns = 0
  /\ zoomRegion = lastEvent.pre
  /\ zoomNewRegion(innerWidth, transform) # zoomRegion
  /\ ~DiffersByMoreThanHalf(zoomNewRegion(innerWidth, transform), zoomRegion)

\* the window the slider asks for: centred on the midpoint of the region
\* before the event, of width length / zoom
SliderWindow ==
  LET center == Div(Add(lastEvent.pre[1], lastEvent.pre[2]), Num(2))
      half   == Div(Div(Len0, lastEvent.a), Num(2))
  IN  <<Sub(center, half), Add(center, half)>>

SliderWindowFits == Ge(SliderWindow[1], Zero) /\ Le(SliderWindow[2], Len0)

\* the stored region is the one the slider committed in the last event
SliderCommitted == lastEvent.op = "slider" /\ committedBy = "slider"

\* C9 as stated: the slider commits the centred window of width
\* length / z when that window fits inside the chromosome
C9_SliderExactWindow ==
  (SliderCommitted /\ SliderWindowFits) => zoomRegion = SliderWindow

\* C9: the slider commits the centred window of width length / z with
\* each bound rounded to the nearest integer, when that window fits
C9_SliderRoundedWindow ==
  (SliderCommitted /\ SliderWindowFits)
    => zoomRegion = <<MathRound(SliderWindow[1]), MathRound(SliderWindow[2])>>

\* the slider committed a window whose bounds had to be rounded
C9_Witness ==
  /\ SliderCommitted
  /\ SliderWindowFits
  /\ zoomRegion # SliderWindow
  /\ lastEvent.pre # <<Zero, Len0>>

\* C10: when the centred window would start below 0 or end above the
\* length, the slider shifts it inward and keeps its width length / z
C10_SliderKeepsWidth ==
  (/\ SliderCommitted
   /\ ~SliderWindowFits
   /\ Le(Sub(SliderWindow[2], SliderWindow[1]), Len0))
    => /\ Le(MathAbs(Sub(RegionWidth, Sub(SliderWindow[2], SliderWindow[1]))), One)
       /\ Le(Zero, RegionStart)
       /\ Le(RegionEnd, Len0)

----------------------------------------------------------------------------
(* Position form                                                           *)

\* the form was submitted and its region is not yet rendered: the fields
\* still hold the submitted texts
FormJustSubmitted ==
  /\ lastEvent.op = "form"
  /\ committedBy = "form"
  /\ effectsPending
  /\ effectRuns = 0

\* a field's value: its integer, or the committed bound when it does not
\* parse
FormFieldValue(text, committed) ==
  LET v == parseInt(removeCommas(text))
  IN  IF IsNaN(v) THEN committed ELSE v

\* C11: the submitted form commits the parsed fields (a field that does
\* not parse falls back to the committed bound), swapped if start > end,
\* both clamped into [0, length], with the end expanded so that the width
\* is at least 10 bp
C11_FormRepairsInput ==
  FormJustSubmitted =>
    LET s0 == FormFieldValue(editableStart, lastEvent.pre[1])
        e0 == FormFieldValue(editableEnd, lastEvent.pre[2])
        lo == MathMin(s0, e0)
        hi == MathMax(s0, e0)
    IN  /\ RegionStart = MathMax(Zero, MathMin(Len0, lo))
        /\ Ge(RegionEnd, MathMax(Zero, MathMin(Len0, hi)))
        /\ Le(RegionEnd, Len0)
        /\ Ge(RegionWidth, Num(10))

----------------------------------------------------------------------------
(* Drag gestures and brush                                                 *)
\* a 'drag' event of the overview rectangle
RectDragStep == \E d \in RectDragDeltas : ZoomRectDrag(d)

\* the region whose width is that of 'region' and whose start is that of
\* 'region' moved by 'shift' bp, limited so that it stays inside the chromosome
ShiftedInside(region, shift) ==
  LET w == Sub(region[2], region[1])
      s == MathMax(Zero, MathMin(Sub(Len0, w), Add(region[1], shift)))
  IN  <<s, Add(s, w)>>

\* bp per pixel of the overview track
overviewBpPerPixel == Div(Len0, Sub(xOverview(Len0), xOverview(Zero)))

\* C12: at every 'drag' event of the overview rectangle the region is the region
\* at drag start moved by the pointer's total displacement divided by the
\* overview scale, kept inside [0, length], with the width it had at drag start
C12_RectDragFollowsPointer ==
  [][RectDragStep =>
       zoomRegion' = ShiftedInside(drag.region,
                                   Mul(lastEvent'.a, overviewBpPerPixel))]_vars

\* a 'drag' event of the chromosome bar was the last thing to happen
PanDragged ==
  /\ lastEvent.op = "pan"
  /\ committedBy = "pan"
  /\ drag.kind = "chr"
  /\ effectRuns = 0

\* C13: every region committed by a pan drag of the chromosome bar lies within
\* [0, length] and has exactly the width of the region at drag start
C13_PanKeepsWidthInside ==
  PanDragged =>
    /\ Ge(RegionStart, Zero) /\ Le(RegionStart, Len0)
    /\ Ge(RegionEnd, Zero) /\ Le(RegionEnd, Len0)
    /\ RegionWidth = Sub(drag.region[2], drag.region[1])

\* the 'end' of a user brush
BrushEndStep == \E sel \in BrushSelections : BrushEnd(sel[1], sel[2])

\* the last event was a user brush, and it committed the current region
BrushCommitted ==
  /\ lastEvent.op = "brush"
  /\ committedBy = "brush"
  /\ effectRuns = 0

\* the bp at pixel x of the detail projection of 'region'
DetailBpAt(region, x) ==
  Add(region[1],
      Div(Mul(Sub(x, Num(marginLeft)), Sub(region[2], region[1])),
          Num(innerWidth - marginRight - marginLeft)))

----------------------------------------------------------------------------
(* Visible genes, letters, arrows                                          *)

\* the elements of a sequence
Range(seq) == {seq[i] : i \in DOMAIN seq}

\* the genes of the two detail rows on screen
DrawnGenes == Range(drawn.plus) \cup Range(drawn.minus)

\* gene.end >= start - b*(end-start) and gene.start <= end + b*(end-start)
InBufferedRegion(gene, region, b) ==
  LET margin == Mul(b, Sub(region[2], region[1]))
  IN  /\ Ge(Num(gene.end), Sub(region[1], margin))
      /\ Le(Num(gene.start), Add(region[2], margin))

\* C15: once the effects have run, the detail rows hold exactly the genes of
\* the collection with gene.end >= start - b*(end-start) and
\* gene.start <= end + b*(end-start) for the current region [start, end] and
\* b = 0.2: the query is evaluated against the current region at every redraw
C15_VisibleGenesOfCurrentRegion ==
  Idle =>
    /\ drawn.region = zoomRegion
    /\ \A gene \in Range(drawn.overview) :
         gene \in DrawnGenes <=> InBufferedRegion(gene, zoomRegion, defaultBuffer)

\* a zoomed view shows a gene that lies beyond the region, inside the buffer,
\* or hides a gene of the collection
C15_Witness ==
  /\ Idle
  /\ zoomRegion # FullRegion
  /\ lastEvent.pre # zoomRegion
  /\ \E gene \in DrawnGenes : Gt(Num(gene.start), RegionEnd)
  /\ \E gene \in DrawnGenes : Le(Num(gene.start), RegionEnd)

\* Math.floor and Math.ceil of a finite number
MathFloor(a) == Num(a[1] \div a[2])

MathCeil(a) == Neg(MathFloor(Neg(a)))

\* a limit of one base per 4 pixels
bpPerPixelLimitQuarter == R(1, 4)

\* "1bp per 5 pixels"
bpPerPixelLimit == R(1, 5)

\* a letters block without the test of the zoom
dnaLettersUngated(width, region, seqLength) ==
  LET start == MathMax(Zero, MathFloor(region[1]))
      end   == MathMin(Num(seqLength), MathCeil(region[2]))
  IN  {i \in 0..seqLength : Ge(Num(i), start) /\ Lt(Num(i), end)}

\* the DNA letters block of the draw effect for window.innerWidth = width,
\* zoomRegion = region and a sequence of seqLength bases: the indices i of the
\* bases it appends a letter for
dnaLetters(width, region, seqLength) ==
  LET bpPerPixel == Div(Sub(region[2], region[1]),
                        Num(width - marginLeft - marginRight))
      start      == MathMax(Zero, MathFloor(region[1]))
      end        == MathMin(Num(seqLength), MathCeil(region[2]))
  IN  IF Le(bpPerPixel, bpPerPixelLimit) /\ seqLength > 0
      THEN {i \in 0..seqLength : Ge(Num(i), start) /\ Lt(Num(i), end)}
      ELSE {}

\* window widths, sequence lengths and regions the letters are studied on
LetterWidths == {360, 600}

LetterSequenceLengths == {0, 100, 720}

LetterRegionStarts == {Zero, R(1, 2), Num(60), Num(640)}

LetterRegionWidths ==
  {Zero, Num(10), Num(48), Num(49), Num(72), Num(73), Num(96), Num(97),
   Num(120), Num(121)}

LetterInputs ==
  { [width |-> w, region |-> <<s, Add(s, d)>>, seqLength |-> n] :
      w \in LetterWidths, s \in LetterRegionStarts, d \in LetterRegionWidths,
      n \in LetterSequenceLengths }

InitLetters ==
  /\ InitEngine
  /\ fnIn \in LetterInputs
  /\ Le(fnIn.region[2], Len0)
  /\ fnOut = <<>>

ApplyLetters ==
  /\ fnOut = <<>>
  /\ fnOut' = [letters |-> dnaLetters(fnIn.width, fnIn.region, fnIn.seqLength)]
  /\ UNCHANGED <<zoomRegion, transform, effectsPending, transition,
                 editableStart, editableEnd, drag, genes, nEvents, lastEvent,
                 committedBy, effectRuns, uiVars, viewVars, fnIn, chat>>

SpecLetters == InitLetters /\ [][ApplyLetters]_vars

\* the bases of the sequence that overlap the region: base i spans [i, i+1)
BasesOf(region, seqLength) ==
  {i \in 0..(seqLength - 1) : Gt(Num(i + 1), region[1]) /\ Lt(Num(i), region[2])}

\* the letters rendered when they are rendered iff the region width over
\* 'pixels' is at most 0.2
LettersIff(pixels) ==
  IF Le(Div(Sub(fnIn.region[2], fnIn.region[1]), Num(pixels)), R(1, 5))
  THEN BasesOf(fnIn.region, fnIn.seqLength)
  ELSE {}

\* C16 as stated: with a non-empty sequence, the letters of the region are
\* rendered iff region width / viewport width in px <= 0.2 (600 px viewport:
\* shown up to 120 bp, hidden at 121 bp)
C16_LettersByViewportWidth ==
  (fnOut # <<>> /\ fnIn.seqLength > 0) =>
    fnOut.letters = LettersIff(fnIn.width)

\* C16: with a non-empty sequence, the letters of the region are rendered iff
\* region width / (viewport width minus the two 60 px margins) <= 0.2 (600 px
\* viewport: shown up to 96 bp, hidden at 97 bp)
C16_LettersByPlotWidth ==
  (fnOut # <<>> /\ fnIn.seqLength > 0) =>
    fnOut.letters = LettersIff(fnIn.width - marginLeft - marginRight)

\* a 600 px viewport shows the letters of a 96 bp region
C16_Witness ==
  /\ fnOut # <<>>
  /\ fnIn.width = 600
  /\ fnIn.seqLength = 720
  /\ fnIn.region = <<Num(60), Num(156)>>
  /\ Cardinality(fnOut.letters) = 96

\* commands of an SVG path: M x,y / h dx / l dx,dy
MoveTo(x, y) == <<"M", x, y>>

HLine(dx) == <<"h", dx, Zero>>

LineBy(dx, dy) == <<"l", dx, dy>>

\* an arrow path whose '-' strand is drawn like the '+' strand
geneArrowPathUnmirrored(x1, x2, y, strand) ==
  LET w == MathAbs(Sub(x2, x1))
  IN  IF Lt(w, Num(12))
      THEN <<MoveTo(x1, y), HLine(w)>>
      ELSE <<MoveTo(x1, y), HLine(Sub(w, Num(7))), LineBy(Num(4), Num(-5)),
             LineBy(Zero, Num(10)), LineBy(Num(-4), Num(-5)), HLine(Num(7))>>

\* geneArrowPath(x1, x2, y, height, strand); 'height' is not used. In the
\* '-' branch the text "h-" followed by w - 7 is a move by -(w - 7), w - 7
\* being positive there
geneArrowPath(x1, x2, y, strand) ==
  LET w == MathAbs(Sub(x2, x1))
  IN  IF Lt(w, Num(12))
      THEN <<MoveTo(x1, y), HLine(w)>>
      ELSE IF strand = "+"
      THEN <<MoveTo(x1, y), HLine(Sub(w, Num(7))), LineBy(Num(4), Num(-5)),
             LineBy(Zero, Num(10)), LineBy(Num(-4), Num(-5)), HLine(Num(7))>>
      ELSE <<MoveTo(x2, y), HLine(Neg(Sub(w, Num(7)))), LineBy(Num(-4), Num(-5)),
             LineBy(Zero, Num(10)), LineBy(Num(4), Num(-5)), HLine(Num(-7))>>

\* projected gene bounds, rows and strands the arrow path is studied on
ArrowXs ==
  {Num(60), R(143, 2), Num(71), Num(72), R(145, 2), Num(80), Num(180), Num(300)}

ArrowRows == {Num(54), Num(84)}

Strands == {"+", "-"}

ArrowInputs ==
  { [x1 |-> a, x2 |-> b, y |-> y, strand |-> s] :
      a \in ArrowXs, b \in ArrowXs, y \in ArrowRows, s \in Strands }

InitArrow ==
  /\ InitEngine
  /\ fnIn \in ArrowInputs
  /\ fnOut = <<>>

ApplyArrow ==
  /\ fnOut = <<>>
  /\ fnOut' = geneArrowPath(fnIn.x1, fnIn.x2, fnIn.y, fnIn.strand)
  /\ UNCHANGED <<zoomRegion, transform, effectsPending, transition,
                 editableStart, editableEnd, drag, genes, nEvents, lastEvent,
                 committedBy, effectRuns, uiVars, viewVars, fnIn, chat>>

SpecArrow == InitArrow /\ [][ApplyArrow]_vars

\* the path has a sloped stroke
HasArrowhead(path) == \E i \in DOMAIN path : path[i][1] = "l"

\* the x at which the pen ends
PathEndX(path) ==
  LET RECURSIVE sum(_)
      sum(i) == IF i = 1 THEN path[1][2] ELSE Add(sum(i - 1), path[i][2])
  IN  sum(Len(path))

\* the path reflected in the vertical line x = axis
Mirrored(path, axis) ==
  [i \in DOMAIN path |->
     IF path[i][1] = "M"
     THEN MoveTo(Sub(Mul(Num(2), axis), path[i][2]), path[i][3])
     ELSE <<path[i][1], Neg(path[i][2]), path[i][3]>>]

OtherStrand(strand) == IF strand = "+" THEN "-" ELSE "+"

\* C17: a gene whose projected width is below 12 px is drawn as a plain
\* segment with no arrowhead; at 12 px or more it is drawn with an arrowhead,
\* the path of one strand being the mirror image of the other strand's
C17_ArrowheadFromTwelvePixels ==
  fnOut # <<>> =>
    LET w    == MathAbs(Sub(fnIn.x2, fnIn.x1))
        axis == Div(Add(fnIn.x1, fnIn.x2), Num(2))
    IN  IF Lt(w, Num(12))
        THEN /\ ~HasArrowhead(fnOut)
             /\ fnOut = <<MoveTo(fnIn.x1, fnIn.y), HLine(w)>>
        ELSE /\ HasArrowhead(fnOut)
             /\ fnOut = Mirrored(geneArrowPath(fnIn.x1, fnIn.x2, fnIn.y,
                                               OtherStrand(fnIn.strand)), axis)
             /\ PathEndX(fnOut) = IF fnIn.strand = "+"
                                  THEN Add(fnIn.x1, w)
                                  ELSE Sub(fnIn.x2, w)

\* a '-' gene of exactly 12 px is drawn with an arrowhead that ends at its
\* left bound
C17_Witness ==
  /\ fnOut # <<>>
  /\ fnIn.strand = "-"
  /\ Sub(fnIn.x2, fnIn.x1) = Num(12)
  /\ HasArrowhead(fnOut)
  /\ PathEndX(fnOut) = fnIn.x1

----------------------------------------------------------------------------
(* Hover, selection and clicks                                             *)

\* elements that carry a gene: the glyph and the hit-box of each track
OverviewGeneTargets == {"overview-gene", "overview-hitbox"}

DetailGeneTargets == {"detail-arrow", "detail-hitbox"}

GeneTargets == OverviewGeneTargets \cup DetailGeneTargets

\* the two background rectangles, and the two svg elements themselves (the
\* target of a click pressed on one element and released on another)
BackgroundTargets ==
  {"overview-background", "detail-background", "overview-svg", "detail-svg"}

\* elements without a click listener of their own: the overview bar, the
\* region rectangle, the chromosome bar, a gene label, the scale band
OtherTargets == {"overview-bar", "zoom-rect", "chr-bar", "gene-label", "scale-band"}

\* the places the pointer can be
PointerPlaces ==
  {Outside}
    \cup { [target |-> t, gene |-> NoGene] : t \in BackgroundTargets \cup OtherTargets }
    \cup { [target |-> t, gene |-> g] :
              t \in GeneTargets, g \in Range(GenesA) \cup Range(GenesB) }

\* the element of a place is on the screen
ElementDrawn(place) ==
  /\ place.target \in OverviewGeneTargets => place.gene \in Range(drawn.overview)
  /\ place.target \in DetailGeneTargets => place.gene \in DrawnGenes
  /\ place.target # "outside"

\* a throttle that makes every call and never arms
throttledSetHoveredGeneUnarmed(state, gene) ==
  <<gene, FALSE, state[3] + 1>>

\* throttle(func, 50): the call is made and the throttle armed, or the call is
\* dropped; 'state' is <<hoveredGene, inThrottle, calls made so far in the event>>
throttledSetHoveredGene(state, gene) ==
  IF state[2] THEN state ELSE <<gene, TRUE, state[3] + 1>>

\* a click whose gene listener lets it reach the background listener
clickSelectionBubbling(target, gene, selected) ==
  IF target \in GeneTargets \cup BackgroundTargets
  THEN NoGene
  ELSE selected

\* a click that only the background rectangles clear on
clickSelectionRectOnly(target, gene, selected) ==
  IF target \in GeneTargets
  THEN gene
  ELSE IF target \in {"overview-background", "detail-background"}
  THEN NoGene
  ELSE selected

\* selectedGene after a click on 'target': the gene listeners stop the
\* propagation and select; the background rectangles clear; the svg listeners
\* clear only when the svg itself is the target
clickSelection(target, gene, selected) ==
  IF target \in GeneTargets
  THEN gene
  ELSE IF target \in BackgroundTargets
  THEN NoGene
  ELSE selected

PointerEvent(op, place, applied) ==
  [op |-> op, target |-> place.target, gene |-> place.gene,
   selected |-> selectedGene, hovered |-> hoveredGene, throttled |-> inThrottle,
   applied |-> applied]

\* the pointer moves to another place: 'mouseout' of the element it leaves
\* and 'mouseover' of the element it enters, both through the throttle
PointerMove(to) ==
  /\ Idle
  /\ to # pointerAt
  /\ to = Outside \/ ElementDrawn(to)
  /\ LET s0 == <<hoveredGene, inThrottle, 0>>
         s1 == IF pointerAt.target \in GeneTargets /\ ElementDrawn(pointerAt)
               THEN throttledSetHoveredGene(s0, NoGene)
               ELSE s0
         s2 == IF to.target \in GeneTargets
               THEN throttledSetHoveredGene(s1, to.gene)
               ELSE s1
     IN  /\ hoveredGene' = s2[1]
         /\ inThrottle' = s2[2]
         /\ lastPointer' = PointerEvent("move", to, s2[3])
  /\ pointerAt' = to
  /\ redrawPending' = (hoveredGene' # hoveredGene)
  /\ UNCHANGED <<zoomRegion, transform, effectsPending, transition,
                 editableStart, editableEnd, drag, genes, nEvents, lastEvent,
                 committedBy, effectRuns, viewVars, selectedGene, fnVars>>

\* setTimeout(() => inThrottle = false, limit)
ThrottleTimeout ==
  /\ inThrottle
  /\ inThrottle' = FALSE
  /\ UNCHANGED <<zoomRegion, transform, effectsPending, transition,
                 editableStart, editableEnd, drag, genes, nEvents, lastEvent,
                 committedBy, effectRuns, viewVars, redrawPending, selectedGene,
                 hoveredGene, pointerAt, lastPointer, fnVars>>

\* a click on the element under the pointer
Click ==
  /\ Idle
  /\ ElementDrawn(pointerAt)
  /\ selectedGene' = clickSelection(pointerAt.target, pointerAt.gene, selectedGene)
  /\ redrawPending' = (selectedGene' # selectedGene)
  /\ lastPointer' = PointerEvent("click", pointerAt, 0)
  /\ UNCHANGED <<zoomRegion, transform, effectsPending, transition,
                 editableStart, editableEnd, drag, genes, nEvents, lastEvent,
                 committedBy, effectRuns, viewVars, hoveredGene, inThrottle,
                 pointerAt, fnVars>>

\* the draw effect after a change of selectedGene or hoveredGene
Redraw ==
  /\ redrawPending
  /\ ~effectsPending
  /\ redrawPending' = FALSE
  /\ drawn' = draw(genes, zoomRegion)
  /\ brushSelection' = NoSelection
  /\ drag' = detached(drag)
  /\ UNCHANGED <<zoomRegion, transform, effectsPending, transition,
                 editableStart, editableEnd, genes, nEvents, lastEvent,
                 committedBy, effectRuns, selectedGene, hoveredGene, inThrottle,
                 pointerAt, lastPointer, fnVars>>

\* the component with its pointer events, the genes prop and the slider
NextPointer ==
  \/ \E to \in PointerPlaces : PointerMove(to)
  \/ ThrottleTimeout
  \/ Click
  \/ Redraw
  \/ RunEffects
  \/ TransitionEnd
  \/ \E zoom \in ZoomBarFactors : HandleZoomBarChange(zoom)
  \/ \E g \in PointerGeneCollections : GenesChange(g)

SpecPointer == Init /\ [][NextPointer]_vars

\* a click was the last pointer event
Clicked == lastPointer.op = "click"

\* C18: if gene B is hovered and gene A is then selected by a click,
\* hoveredGene becomes empty; after a click on the background both
\* selectedGene and hoveredGene are empty
C18_ClickClearsHover ==
  /\ (Clicked /\ lastPointer.target \in GeneTargets
        /\ lastPointer.hovered \notin {NoGene, lastPointer.gene})
       => (selectedGene = lastPointer.gene /\ hoveredGene = NoGene)
  /\ (Clicked /\ lastPointer.target \in BackgroundTargets)
       => (selectedGene = NoGene /\ hoveredGene = NoGene)

\* C19: a click on a gene glyph or hit-box, in either track, sets selectedGene
\* to that gene, also while the hover throttle is armed, and no background
\* listener clears it
C19_GeneClickSelects ==
  (Clicked /\ lastPointer.target \in GeneTargets) =>
    (selectedGene = lastPointer.gene /\ selectedGene # NoGene)

\* a gene was clicked while the throttle was armed and another gene selected
C19_Witness ==
  /\ Clicked
  /\ lastPointer.target \in GeneTargets
  /\ lastPointer.throttled
  /\ lastPointer.selected \notin {NoGene, lastPointer.gene}
  /\ selectedGene = lastPointer.gene

----------------------------------------------------------------------------
(* Hover throttle                                                          *)

\* a pointer move: its 'mouseout' and 'mouseover' calls of the throttled setter
PointerMoveStep == \E to \in PointerPlaces : PointerMove(to)

\* C21: applied updates of hoveredGene are rate-limited: hoveredGene changes
\* only in an event that finds the throttle released and arms it, one event
\* applies at most one update, and only the expiry of the 50 ms timer
\* releases the throttle
C21_HoverUpdatesThrottled ==
  [][/\ hoveredGene' # hoveredGene => (~inThrottle /\ inThrottle')
     /\ PointerMoveStep =>
          /\ lastPointer'.applied <= 1
          /\ lastPointer'.applied = 1 => (~inThrottle /\ inThrottle')
     /\ (inThrottle /\ ~inThrottle') => ThrottleTimeout]_vars

\* the pointer went from one gene to another while the throttle was armed:
\* neither the 'mouseout' nor the 'mouseover' was applied
C21_Witness ==
  /\ lastPointer.op = "move"
  /\ lastPointer.throttled
  /\ lastPointer.applied = 0
  /\ lastPointer.target \in GeneTargets
  /\ lastPointer.hovered \notin {NoGene, lastPointer.gene}
  /\ hoveredGene = lastPointer.hovered
  /\ pointerAt.gene = lastPointer.gene

----------------------------------------------------------------------------
(* Interaction state and the gene collection                               *)

\* the ids of the genes of a collection
Ids(gs) == {gs[i].id : i \in DOMAIN gs}

\* C22: after the gene collection is replaced, neither hoveredGene nor
\* selectedGene refers to a gene that is not in the new collection
C22_NoStaleGeneAfterSwap ==
  (Idle /\ lastEvent.op = "genes") =>
    /\ selectedGene = NoGene \/ selectedGene.id \in Ids(genes)
    /\ hoveredGene = NoGene \/ hoveredGene.id \in Ids(genes)

----------------------------------------------------------------------------
(* Mount of the component as a function of the chromosome length and of    *)
(* the window width                                                        *)

visiblePixelsOf(width) == Num(width - marginLeft - marginRight)

\* a smallest window of one base per 10 pixels
minBpWindowOfTen(width) == Div(visiblePixelsOf(width), Num(10))

\* const minBpWindow = visiblePixels / 20
minBpWindowOf(width) == Div(visiblePixelsOf(width), Num(20))

\* const maxZoom = realChromosome.length / minBpWindow, in the zoom setup
\* and again for the slider
maxZoomOf(length, width) == Div(Num(length), minBpWindowOf(width))

\* the first render and its effects for chromosomeData.length = length and
\* window.innerWidth = width: the state it stores, the zoom extent it sets,
\* the messages it reports (the component has no statement that reports or
\* throws) and the bars it draws (both are appended unconditionally)
mountComponent(length, width) ==
  [zoomRegion    |-> <<Zero, Num(length)>>,
   editableStart |-> roundToString(Zero),
   minZoom       |-> Num(minZoom),
   maxZoom       |-> maxZoomOf(length, width),
   sliderMaxZoom |-> maxZoomOf(length, width),
   reported      |-> <<>>,
   overviewBar   |-> TRUE,
   chrBar        |-> TRUE]

MountLengths == {-720, -1, 0, 1, 12, 720, 1000, 5000}

MountWidths == {320, 360, 500, 600, 720, 1000, 1920}

MountInputs == { [length |-> l, width |-> w] : l \in MountLengths, w \in MountWidths }

InitMount ==
  /\ InitEngine
  /\ fnIn \in MountInputs
  /\ fnOut = <<>>

ApplyMount ==
  /\ fnOut = <<>>
  /\ fnOut' = mountComponent(fnIn.length, fnIn.width)
  /\ UNCHANGED <<zoomRegion, transform, effectsPending, transition,
                 editableStart, editableEnd, drag, genes, nEvents, lastEvent,
                 committedBy, effectRuns, uiVars, viewVars, fnIn, chat>>

SpecMount == InitMount /\ [][ApplyMount]_vars

\* C23: when the chromosome length is <= 0, initialization reports a
\* configuration error exactly once, commits no region and renders nothing
C23_NonPositiveLengthReported ==
  (fnOut # <<>> /\ fnIn.length <= 0) =>
    /\ Len(fnOut.reported) = 1
    /\ fnOut.zoomRegion = <<>>
    /\ ~fnOut.overviewBar
    /\ ~fnOut.chrBar

Bases == {"A", "C", "G", "T"}

\* symbols a sequence of the data file is made of
SequenceSymbols == Bases \cup {"N", "a"}

MaxSeqLen == 3

RECURSIVE SymbolSeqs(_)
SymbolSeqs(n) ==
  IF n = 0 THEN {<<>>}
  ELSE LET shorter == SymbolSeqs(n - 1)
       IN  shorter \cup {Append(s, c) : s \in {t \in shorter : Len(t) = n - 1},
                                        c \in SequenceSymbols}

\* String.prototype.toUpperCase on one symbol
toUpperCase(c) == CASE c = "a" -> "A" [] OTHER -> c

\* baseColors
baseColors ==
  [b \in Bases |-> CASE b = "A" -> "#1f77b4" [] b = "C" -> "#2ca02c"
                     [] b = "T" -> "#d62728" [] b = "G" -> "#ff7f0e"]

defaultBaseColor == "#222"

\* baseColors[base] || '#222'
baseFill(base) ==
  IF base \in DOMAIN baseColors THEN baseColors[base] ELSE defaultBaseColor

\* chromosomeData.sequence.toUpperCase().replace(/[^ACGT]/g, '')
cleanSequence(sequence) ==
  SelectSeq([i \in DOMAIN sequence |-> toUpperCase(sequence[i])],
            LAMBDA c : c \in Bases)

\* Evaluation of the module with the data file 'data' (hasSequence is FALSE
\* when the JSON has no 'sequence' key, so that the member is undefined), followed by the first
\* draw at the region [0, MaxSeqLen] of a 360 px window (80 px per base): a
\* call of toUpperCase on undefined throws a TypeError and nothing is drawn.
\* 'letters' maps each 0-based index drawn to the text element appended for it.
loadData(data) ==
  IF ~data.hasSequence
  THEN [thrown |-> TRUE, letters |-> <<>>, overviewBar |-> FALSE,
        chrBar |-> FALSE, glyphs |-> <<>>]
  ELSE LET realSequence == cleanSequence(data.sequence)
           region       == <<Zero, Num(MaxSeqLen)>>
           shown        == dnaLetters(innerWidth, region, Len(realSequence))
           d            == draw(data.genes, region)
       IN  [thrown |-> FALSE,
            letters |-> [i \in shown |->
                           [text |-> realSequence[i + 1],
                            fill |-> baseFill(realSequence[i + 1])]],
            overviewBar |-> TRUE,
            chrBar |-> TRUE,
            glyphs |-> d.overview \o d.plus \o d.minus]

DataInputs ==
  { [hasSequence |-> TRUE, sequence |-> s, genes |-> g] :
      s \in SymbolSeqs(MaxSeqLen), g \in GeneCollections }
  \cup { [hasSequence |-> FALSE, sequence |-> <<>>, genes |-> g] :
            g \in GeneCollections }

InitData ==
  /\ InitEngine
  /\ fnIn \in DataInputs
  /\ fnOut = <<>>

ApplyData ==
  /\ fnOut = <<>>
  /\ fnOut' = loadData(fnIn)
  /\ UNCHANGED <<zoomRegion, transform, effectsPending, transition,
                 editableStart, editableEnd, drag, genes, nEvents, lastEvent,
                 committedBy, effectRuns, uiVars, viewVars, fnIn, chat>>

SpecData == InitData /\ [][ApplyData]_vars

\* C24: degenerate data never raises an error: with a missing or empty sequence
\* the component loads and draws with no per-base letter; with an empty gene
\* collection both bars are drawn and no gene glyph; every symbol of the
\* sequence outside A/C/G/T is drawn, at its position, in the default colour.
C24_DegenerateDataHandled ==
  fnOut # <<>> =>
    /\ ~fnOut.thrown
    /\ (~fnIn.hasSequence \/ fnIn.sequence = <<>>) =>
         (fnOut.letters = <<>> /\ fnOut.overviewBar /\ fnOut.chrBar)
    /\ fnIn.genes = <<>> =>
         (fnOut.overviewBar /\ fnOut.chrBar /\ fnOut.glyphs = <<>>)
    /\ fnIn.hasSequence =>
         \A i \in DOMAIN fnIn.sequence :
           toUpperCase(fnIn.sequence[i]) \notin Bases =>
             /\ (i - 1) \in DOMAIN fnOut.letters
             /\ fnOut.letters[i - 1].text = toUpperCase(fnIn.sequence[i])
             /\ fnOut.letters[i - 1].fill = defaultBaseColor

\* the part of C24 about a sequence that is present: no error, an empty
\* sequence draws no letter, an empty collection draws bars and no glyph
C24_PresentSequenceLoads ==
  (fnOut # <<>> /\ fnIn.hasSequence) =>
    /\ ~fnOut.thrown
    /\ fnIn.sequence = <<>> => fnOut.letters = <<>>
    /\ fnOut.overviewBar /\ fnOut.chrBar
    /\ fnIn.genes = <<>> => fnOut.glyphs = <<>>

\* no letter is ever drawn in the default colour: symbols outside A/C/G/T
\* were removed when the module was loaded
C24_NoDefaultColourDrawn ==
  fnOut # <<>> =>
    \A i \in DOMAIN fnOut.letters : fnOut.letters[i].fill # defaultBaseColor

\* ---------------------------------------------------------------------------
\* Consistency of the two tracks

C26_DetailDrawnFromCommittedRegion ==
  Idle => drawn.region = zoomRegion

\* ---------------------------------------------------------------------------
\* Redraw after a change of the gene collection

\* C27: once the effects of a change of the gene collection have run, both
\* tracks show the new collection: the overview draws every gene of it and the
\* two detail rows draw its genes visible in the committed region, with no
\* further event.
C27_RedrawnAfterCollectionChange ==
  (Idle /\ lastEvent.op = "genes") =>
    /\ drawn.region = zoomRegion
    /\ drawn.overview = genes
    /\ drawn.plus = draw(genes, zoomRegion).plus
    /\ drawn.minus = draw(genes, zoomRegion).minus

\* the part of C27 that holds: after a change to a collection that is not
\* empty both tracks show the new collection
C27_RedrawnAfterNonEmptyCollection ==
  (Idle /\ lastEvent.op = "genes" /\ genes # <<>>) =>
    /\ drawn.region = zoomRegion
    /\ drawn.overview = genes
    /\ drawn.plus = draw(genes, zoomRegion).plus
    /\ drawn.minus = draw(genes, zoomRegion).minus

\* ---------------------------------------------------------------------------
\* The inspector panel

\* an inspector in which the hovered gene comes first
inspectorHoverFirst(selected, hovered) ==
  IF hovered # NoGene \/ selected # NoGene
  THEN [panel |-> "gene",
        gene |-> IF hovered # NoGene THEN hovered ELSE selected,
        selectedNote |-> selected # NoGene]
  ELSE [panel |-> "default", gene |-> NoGene, selectedNote |-> FALSE]

\* the tooltip area of the render: (selectedGene || hoveredGene) ? the fields
\* of that gene, with a note when selectedGene is set : the default text
inspector(selected, hovered) ==
  IF selected # NoGene \/ hovered # NoGene
  THEN [panel |-> "gene",
        gene |-> IF selected # NoGene THEN selected ELSE hovered,
        selectedNote |-> selected # NoGene]
  ELSE [panel |-> "default", gene |-> NoGene, selectedNote |-> FALSE]

\* what the inspector shows in the current state
inspectorShown == inspector(selectedGene, hoveredGene)

\* C28: the inspector shows the selected gene whenever selectedGene is set,
\* the hovered gene only when selectedGene is empty and hoveredGene is set, and
\* the default text exactly when both are empty
C28_InspectorSelectionWins ==
  /\ selectedGene # NoGene =>
       (inspectorShown.panel = "gene" /\ inspectorShown.gene = selectedGene)
  /\ (inspectorShown.panel = "gene" /\ inspectorShown.gene = hoveredGene
        /\ hoveredGene # selectedGene) =>
       (selectedGene = NoGene /\ hoveredGene # NoGene)
  /\ (selectedGene = NoGene /\ hoveredGene # NoGene) =>
       (inspectorShown.panel = "gene" /\ inspectorShown.gene = hoveredGene)
  /\ inspectorShown.panel = "default" <=>
       (selectedGene = NoGene /\ hoveredGene = NoGene)

\* one gene is selected while another is hovered
C28_Witness ==
  /\ selectedGene # NoGene
  /\ hoveredGene # NoGene
  /\ hoveredGene # selectedGene
  /\ inspectorShown.gene = selectedGene

\* ---------------------------------------------------------------------------
\* Gene colours

\* geneColors
geneColors ==
  << "#3498db", "#2ecc71", "#e74c3c", "#f1c40f", "#9b59b6",
     "#e67e22", "#1abc9c", "#e91e63", "#cddc39", "#00bfff" >>

highlightColor == "#000"

\* getGeneColor(index), index counted from 0
getGeneColor(index) == geneColors[(index % Len(geneColors)) + 1]

\* geneIndexMap.current after the effect on [genes]: id -> index counted from
\* 0; Map.set keeps the last index of an id
geneIndexMap(gs) ==
  [id \in Ids(gs) |->
     (CHOOSE i \in DOMAIN gs :
        /\ gs[i].id = id
        /\ \A j \in DOMAIN gs : gs[j].id = id => j <= i) - 1]

\* fill of the overview rectangle of the gene at index i (counted from 0)
overviewFill(i) == getGeneColor(i)

\* a stroke that takes the index of the data join, the position among the
\* arrows drawn
detailStrokeByDrawIndex(gs, d, i, selected, hovered) ==
  IF selected.id = d.id \/ hovered.id = d.id
  THEN highlightColor
  ELSE getGeneColor(i)

\* stroke of the detail arrow of gene d, the i-th arrow of its row (from 0)
detailStroke(gs, d, i, selected, hovered) ==
  IF selected.id = d.id \/ hovered.id = d.id
  THEN highlightColor
  ELSE getGeneColor(geneIndexMap(gs)[d.id])

\* the colours the draw effect gives to the genes gs in the region
drawColours(gs, region, selected, hovered) ==
  LET d == draw(gs, region)
      row(r) == [k \in DOMAIN r |->
                   [id |-> r[k].id,
                    stroke |-> detailStroke(gs, r[k], k - 1, selected, hovered)]]
  IN  [overview |-> [i \in DOMAIN gs |->
                       [id |-> gs[i].id, fill |-> overviewFill(i - 1)]],
       detail   |-> row(d.plus) \o row(d.minus)]

ColourIds ==
  << "c0", "c1", "c2", "c3", "c4", "c5", "c6", "c7", "c8", "c9", "c10", "c11" >>

\* twelve genes of 50 bp, one every 60 bp, on alternating strands
ColourGenes ==
  [i \in DOMAIN ColourIds |->
     [id |-> ColourIds[i], start |-> 60 * (i - 1), end |-> 60 * (i - 1) + 50,
      strand |-> IF i % 2 = 1 THEN "+" ELSE "-"]]

Reverse(s) == [i \in DOMAIN s |-> s[Len(s) + 1 - i]]

\* the prefixes of ColourGenes, the whole of it backwards, and a collection in
\* which two genes share an id
ColourCollections ==
  {SubSeq(ColourGenes, 1, n) : n \in 0..Len(ColourGenes)}
    \cup {Reverse(ColourGenes)}
    \cup {<<ColourGenes[1], ColourGenes[2], [ColourGenes[3] EXCEPT !.id = "c0"]>>}

ColourRegions ==
  {FullRegion, <<Zero, Num(120)>>, <<Num(300), Num(480)>>, <<Num(600), Num(720)>>}

ColourHighlights == {NoGene, ColourGenes[1], ColourGenes[12]}

ColourInputs ==
  { [genes |-> g, region |-> r, selected |-> s, hovered |-> h] :
      g \in ColourCollections, r \in ColourRegions,
      s \in ColourHighlights, h \in ColourHighlights }

InitColours ==
  /\ InitEngine
  /\ fnIn \in ColourInputs
  /\ fnOut = <<>>

ApplyColours ==
  /\ fnOut = <<>>
  /\ fnOut' = drawColours(fnIn.genes, fnIn.region, fnIn.selected, fnIn.hovered)
  /\ UNCHANGED <<zoomRegion, transform, effectsPending, transition,
                 editableStart, editableEnd, drag, genes, nEvents, lastEvent,
                 committedBy, effectRuns, uiVars, viewVars, fnIn, chat>>

SpecColours == InitColours /\ [][ApplyColours]_vars

UniqueIds(gs) == \A i, j \in DOMAIN gs : gs[i].id = gs[j].id => i = j

\* position (from 1) of the gene with this id in a collection with unique ids
PositionOf(gs, id) == CHOOSE i \in DOMAIN gs : gs[i].id = id

\* palette[index mod paletteSize] for the gene at position pos (from 1)
PaletteColour(pos) == geneColors[((pos - 1) % Len(geneColors)) + 1]

\* C29 as stated: in a collection with unique ids every gene drawn has the
\* colour palette[index mod paletteSize] of its position in the collection, in
\* the overview and in the detail track alike
C29_PaletteColourInBothTracks ==
  (fnOut # <<>> /\ UniqueIds(fnIn.genes)) =>
    /\ \A i \in DOMAIN fnOut.overview : fnOut.overview[i].fill = PaletteColour(i)
    /\ \A k \in DOMAIN fnOut.detail :
         fnOut.detail[k].stroke =
           PaletteColour(PositionOf(fnIn.genes, fnOut.detail[k].id))

\* C29: in a collection with unique ids the overview fill of every gene is
\* palette[index mod paletteSize] for its position in the collection, and the
\* detail arrow of a gene that is neither selected nor hovered has the same
\* colour, whatever the region and the order of the rows; the detail arrow of
\* the selected or hovered gene is drawn in the highlight colour
C29_PaletteColourUnlessHighlighted ==
  (fnOut # <<>> /\ UniqueIds(fnIn.genes)) =>
    /\ \A i \in DOMAIN fnOut.overview : fnOut.overview[i].fill = PaletteColour(i)
    /\ \A k \in DOMAIN fnOut.detail :
         LET id == fnOut.detail[k].id
         IN  fnOut.detail[k].stroke =
               IF id \in {fnIn.selected.id, fnIn.hovered.id}
               THEN highlightColor
               ELSE PaletteColour(PositionOf(fnIn.genes, id))

\* twelve genes, the last three visible, c11 selected: its overview rectangle
\* has the colour of index 11 mod 10 and its arrow the highlight colour, and c9,
\* the first arrow of the minus row, has the colour of index 9
C29_Witness ==
  /\ fnOut # <<>>
  /\ fnIn.genes = ColourGenes
  /\ fnIn.region = <<Num(600), Num(720)>>
  /\ fnIn.selected = ColourGenes[12]
  /\ fnIn.hovered = NoGene
  /\ fnOut.overview[12] = [id |-> "c11", fill |-> geneColors[2]]
  /\ \E k \in DOMAIN fnOut.detail :
       fnOut.detail[k] = [id |-> "c11", stroke |-> highlightColor]
  /\ \E k \in DOMAIN fnOut.detail :
       fnOut.detail[k] = [id |-> "c9", stroke |-> geneColors[10]]

\* ---------------------------------------------------------------------------
\* Pan of the chromosome bar within one gesture

\* a 'drag' event of the chromosome bar
PanDragStep == \E d \in DragDeltas : PanDrag(d)

\* the region captured at drag start moved by deltaX pixels at the scale of
\* that region, then brought back inside the chromosome from either side
PanFromStart(startRegion, deltaX) ==
  LET shift == Mul(deltaX, Div(Sub(startRegion[2], startRegion[1]), visiblePixels))
      s0    == Sub(startRegion[1], shift)
      e0    == Sub(startRegion[2], shift)
      back  == IF Lt(s0, Zero) THEN Sub(Zero, s0) ELSE Zero
      s1    == Add(s0, back)
      e1    == Add(e0, back)
      over  == IF Gt(e1, Len0) THEN Sub(e1, Len0) ELSE Zero
  IN  <<Sub(s1, over), Sub(e1, over)>>

\* C30: at every 'drag' event of a pan of the chromosome bar the region
\* committed is determined by the region captured at drag start and the total
\* pixel delta since drag start, with the bp per pixel of the captured region;
\* a 'drag' event at the starting x commits the captured region itself
C30_PanFromDragStart ==
  [][PanDragStep =>
       /\ zoomRegion' = PanFromStart(drag.region, lastEvent'.a)
       /\ lastEvent'.a = Zero => zoomRegion' = drag.region]_vars

\* the second 'drag' event of a gesture came back to the starting x after the
\* first had moved the region: the region is the one captured at drag start
C30_Witness ==
  /\ lastEvent.op = "pan"
  /\ lastEvent.a = Zero
  /\ committedBy = "pan"
  /\ drag.kind = "chr"
  /\ drag.moves = 2
  /\ lastEvent.pre # drag.region
  /\ zoomRegion = drag.region
  /\ drag.region # FullRegion

\* ---------------------------------------------------------------------------
\* The overview indicator in the full view

\* the committed region is the full view: start <= 1 and end >= length - 1
FullViewRegion ==
  /\ Le(zoomRegion[1], One)
  /\ Ge(zoomRegion[2], Sub(Len0, One))

\* C31: while the committed region is the full view the overview indicator
\* spans the whole bar, no drag gesture of the indicator can start, and no
\* 'drag' event of the indicator changes the committed region
C31_FullViewIndicatorFixed ==
  /\ []((Idle /\ FullViewRegion) =>
          /\ drawn.rectX = Num(marginLeft)
          /\ drawn.rectWidth = visiblePixels
          /\ ~ENABLED ZoomRectStart)
  /\ [][(RectDragStep /\ FullViewRegion) => zoomRegion' = zoomRegion]_vars

\* a full view that is not [0, length] itself, drawn over the whole bar
C31_Witness ==
  /\ Idle
  /\ FullViewRegion
  /\ zoomRegion # FullRegion
  /\ drawn.region = zoomRegion
  /\ drawn.rectX = Num(marginLeft)
  /\ drawn.rectWidth = visiblePixels

\* the region [0, length - 5] committed by the position form while the reset
\* transition started by the Reset button has not yet had its first frame
ResetPendingRegion == <<Zero, Sub(Len0, Num(5))>>

\* the state of the component at that moment, as Spec reaches it by
\* HandleResetView, HandleEndInputChange, HandlePositionSubmit and the effects
ResetPending ==
  /\ zoomRegion = ResetPendingRegion
  /\ transform = zoomIdentity
  /\ effectsPending = FALSE
  /\ transition = "scheduled"
  /\ editableStart = roundToString(ResetPendingRegion[1])
  /\ editableEnd = roundToString(ResetPendingRegion[2])
  /\ drag = NoDrag
  /\ genes = <<>>
  /\ lastEvent = [op |-> "form", pre |-> FullRegion,
                  a |-> ResetPendingRegion[1], b |-> ResetPendingRegion[2]]
  /\ committedBy = "form"
  /\ effectRuns = 1
  /\ brushSelection = NoSelection
  /\ drawn = draw(<<>>, ResetPendingRegion)
  /\ redrawPending = FALSE
  /\ selectedGene = NoGene
  /\ hoveredGene = NoGene
  /\ inThrottle = FALSE
  /\ pointerAt = Outside
  /\ lastPointer = [op |-> "none", target |-> "none", gene |-> NoGene,
                    selected |-> NoGene, hovered |-> NoGene, throttled |-> FALSE,
                    applied |-> 0]
  /\ fnIn = <<>>
  /\ fnOut = <<>>
  /\ chat = ChatMounted

\* Spec never reaches the state ResetPending
ResetPendingNotReached == ~ResetPending

InitResetPending ==
  /\ ResetPending
  /\ nEvents = 0

\* the component from the state ResetPending on
SpecResetPending == InitResetPending /\ [][Next]_vars

\* ---------------------------------------------------------------------------
\* Hover in the first version of the component (lines 1-970 of the file)

\* 'mouseover' of a gene element in the first version: <<selectedGene, hoveredGene>>
mouseoverEarlier(selected, hovered, gene) == <<NoGene, gene>>

\* 'mouseout' of a gene element in the first version
mouseoutEarlier(selected, hovered) == <<selected, NoGene>>

\* selectedGene after a click in the first version: the gene listeners select,
\* the two background rectangles clear, the svg elements have no listener
clickSelectionEarlier(target, gene, selected) ==
  IF target \in GeneTargets
  THEN gene
  ELSE IF target \in {"overview-background", "detail-background"}
  THEN NoGene
  ELSE selected

\* the pointer moves to another place in the first version: the setters are
\* called directly, and the draw effect depends on [zoomRegion] only
PointerMoveEarlier(to) ==
  /\ Idle
  /\ to # pointerAt
  /\ to = Outside \/ ElementDrawn(to)
  /\ LET s0 == <<selectedGene, hoveredGene>>
         s1 == IF pointerAt.target \in GeneTargets /\ ElementDrawn(pointerAt)
               THEN mouseoutEarlier(s0[1], s0[2])
               ELSE s0
         s2 == IF to.target \in GeneTargets
               THEN mouseoverEarlier(s1[1], s1[2], to.gene)
               ELSE s1
     IN  /\ selectedGene' = s2[1]
         /\ hoveredGene' = s2[2]
  /\ pointerAt' = to
  /\ lastPointer' = PointerEvent("move", to, 0)
  /\ UNCHANGED <<zoomRegion, transform, effectsPending, transition,
                 editableStart, editableEnd, drag, genes, nEvents, lastEvent,
                 committedBy, effectRuns, viewVars, redrawPending, inThrottle,
                 fnVars>>

ClickEarlier ==
  /\ Idle
  /\ ElementDrawn(pointerAt)
  /\ selectedGene' = clickSelectionEarlier(pointerAt.target, pointerAt.gene, selectedGene)
  /\ lastPointer' = PointerEvent("click", pointerAt, 0)
  /\ UNCHANGED <<zoomRegion, transform, effectsPending, transition,
                 editableStart, editableEnd, drag, genes, nEvents, lastEvent,
                 committedBy, effectRuns, viewVars, redrawPending, hoveredGene,
                 inThrottle, pointerAt, fnVars>>

\* the first version with its pointer events and the genes prop
NextPointerEarlier ==
  \/ \E to \in PointerPlaces : PointerMoveEarlier(to)
  \/ ClickEarlier
  \/ \E g \in PointerGeneCollections : GenesChange(g)
  \/ RunEffects
  \/ TransitionEnd

SpecPointerEarlier == Init /\ [][NextPointerEarlier]_vars

\* a pointer move, in either version of the component
HoverStep ==
  \/ \E to \in PointerPlaces : PointerMove(to)
  \/ \E to \in PointerPlaces : PointerMoveEarlier(to)

\* C32: a hover event (the pointer entering or leaving a gene glyph or hit-box,
\* in either track) changes nothing of the state but hoveredGene: selectedGene,
\* the region, the transform and the gene collection stay as they were
C32_HoverLeavesSelection ==
  [][HoverStep =>
       /\ selectedGene' = selectedGene
       /\ UNCHANGED <<zoomRegion, transform, genes, editableStart, editableEnd>>]_vars

\* ---------------------------------------------------------------------------
\* Number of letters of one redraw

\* C33: the letters drawn in one redraw number at most 0.2 x (viewport width
\* in px) + 2, whatever the length of the sequence and wherever the region lies
C33_LettersBoundedByViewport ==
  fnOut # <<>> =>
    Le(Num(Cardinality(fnOut.letters)),
       Add(Mul(R(1, 5), Num(fnIn.width)), Num(2)))

\* the same bound with the width of the plot, the viewport without its margins
C33_LettersBoundedByPlot ==
  fnOut # <<>> =>
    Le(Num(Cardinality(fnOut.letters)),
       Add(Mul(R(1, 5), Num(fnIn.width - marginLeft - marginRight)), Num(2)))

\* a 360 px viewport shows the 49 letters that the region [0.5, 48.5] touches,
\* out of a sequence of 720
C33_Witness ==
  /\ fnOut # <<>>
  /\ fnIn.width = 360
  /\ fnIn.seqLength = 720
  /\ fnIn.region = <<R(1, 2), R(97, 2)>>
  /\ Cardinality(fnOut.letters) = 49

\* the same bound for every region the component commits, with a sequence as
\* long as the chromosome
C33_LettersBoundedInEngine ==
  Le(Num(Cardinality(dnaLetters(innerWidth, zoomRegion, realChromosomeLength))),
     Add(Mul(R(1, 5), Num(innerWidth)), Num(2)))

\* ---------------------------------------------------------------------------
\* Replacement of the gene collection

\* the gene collection was replaced and everything it started has finished
GenesReplacedAndSettled ==
  /\ lastEvent.op = "genes"
  /\ Idle
  /\ transition = "none"

\* C34: once a replacement of the gene collection, by an empty collection
\* too, has had its effects and its transition, the region is [0, length] and
\* the gesture transform is the identity
C34_CollectionChangeResetsView ==
  GenesReplacedAndSettled =>
    (zoomRegion = FullRegion /\ transform = zoomIdentity)

\* the part of C34 about a collection that is not empty
C34_NonEmptyCollectionResetsView ==
  (GenesReplacedAndSettled /\ genes # <<>>) =>
    (zoomRegion = FullRegion /\ transform = zoomIdentity)

\* ---------------------------------------------------------------------------
\* Hover state once the pointer rests

\* the gene whose element the pointer is over, if any
PointerGene ==
  IF pointerAt.target \in GeneTargets /\ ElementDrawn(pointerAt)
  THEN pointerAt.gene
  ELSE NoGene

\* the places of the pointer in the runs about the resting pointer: off the
\* component, the background of the detail view, the arrows of the genes and
\* their hit-boxes in the overview
HoverPlaces ==
  {Outside, [target |-> "detail-background", gene |-> NoGene]}
    \cup { [target |-> t, gene |-> g] :
              t \in {"detail-arrow", "overview-hitbox"}, g \in Range(GenesA) }

\* the component after the collection GenesA was loaded and drawn in the
\* full view and the transition of the load has ended
GenesDrawn ==
  /\ zoomRegion = FullRegion
  /\ transform = zoomIdentity
  /\ effectsPending = FALSE
  /\ transition = "none"
  /\ editableStart = roundToString(FullRegion[1])
  /\ editableEnd = roundToString(FullRegion[2])
  /\ drag = NoDrag
  /\ genes = GenesA
  /\ lastEvent = [op |-> "genes", pre |-> FullRegion, a |-> Zero, b |-> Zero]
  /\ committedBy = "reset"
  /\ effectRuns = 0
  /\ brushSelection = NoSelection
  /\ drawn = draw(GenesA, FullRegion)
  /\ redrawPending = FALSE
  /\ selectedGene = NoGene
  /\ hoveredGene = NoGene
  /\ inThrottle = FALSE
  /\ pointerAt = Outside
  /\ lastPointer = [op |-> "none", target |-> "none", gene |-> NoGene,
                    selected |-> NoGene, hovered |-> NoGene, throttled |-> FALSE,
                    applied |-> 0]
  /\ fnIn = <<>>
  /\ fnOut = <<>>
  /\ chat = ChatMounted

\* SpecPointer never reaches the state GenesDrawn
GenesDrawnNotReached == ~GenesDrawn

InitHover ==
  /\ GenesDrawn
  /\ nEvents = 1

\* the hover events of the component, the timer of the throttle and the draw
NextHover ==
  \/ \E to \in HoverPlaces : PointerMove(to)
  \/ ThrottleTimeout
  \/ Redraw

\* the component from the state GenesDrawn on; the timer of the throttle
\* fires 50 ms after it was set, and React runs the draw effect of every
\* change of hoveredGene
SpecHover ==
  /\ InitHover
  /\ [][NextHover]_vars
  /\ WF_vars(ThrottleTimeout)
  /\ WF_vars(Redraw)

\* C35: if from some point on there is no further pointer event and the
\* drawing stays as it is, then eventually, the throttle window having
\* expired, hoveredGene is the gene under the pointer, or empty when the
\* pointer is over no gene, and stays so
C35_HoverEventuallyConsistent ==
  <>[][pointerAt' = pointerAt /\ drawn' = drawn]_vars
    => <>[](hoveredGene = PointerGene)

\* C35 as a property of the states in which the pointer rests: whenever the
\* throttle window has expired and nothing is pending, hoveredGene is the
\* gene under the pointer
C35_RestingHoverConsistent ==
  (Idle /\ ~inThrottle /\ lastPointer.op = "move") => hoveredGene = PointerGene

\* ---------------------------------------------------------------------------
\* Region state and interaction state

\* the places of the pointer in the runs with all inputs: off the component,
\* the background of the detail view, the arrows of the genes
InteractionPlaces == { p \in HoverPlaces : p.target # "overview-hitbox" }

\* one event of every input that proposes a region, with the effects that
\* follow; from a zoomed view the synchronising effect ends the transition
\* of a reset before its first frame
RegionInputs ==
  \/ RunEffects
  \/ Wheel(Num(2), Num(180))
  \/ MousePan(Num(60))
  \/ BrushEnd(Num(120), Num(240))
  \/ PanStart(Num(180))
  \/ PanDrag(Num(-60))
  \/ ZoomRectStart
  \/ ZoomRectDrag(Num(60))
  \/ DragEnd
  \/ HandleZoomBarChange(Num(10))
  \/ HandleStartInputChange(<<"1">>)
  \/ HandleEndInputChange(<<"1", "0", "0">>)
  \/ HandlePositionSubmit
  \/ HandleResetView
  \/ DblclickReset

\* every input of the component: the inputs that propose a region and the
\* pointer events on the genes and the backgrounds
NextInteraction ==
  \/ RegionInputs
  \/ \E to \in InteractionPlaces : PointerMove(to)
  \/ ThrottleTimeout
  \/ Click
  \/ Redraw

\* the region and the transform after the slider was put on 0.30 in the
\* full view
SliderRegion == <<Num(180), Num(540)>>

SliderTransform == [k |-> Num(2), x |-> Num(-150)]

\* the component after the collection GenesA was loaded and drawn and the
\* slider was put on 0.30
GenesDrawnZoomed ==
  /\ zoomRegion = SliderRegion
  /\ transform = SliderTransform
  /\ effectsPending = FALSE
  /\ transition = "none"
  /\ editableStart = roundToString(SliderRegion[1])
  /\ editableEnd = roundToString(SliderRegion[2])
  /\ drag = NoDrag
  /\ genes = GenesA
  /\ lastEvent = [op |-> "slider", pre |-> FullRegion, a |-> R(399, 200), b |-> Zero]
  /\ committedBy = "slider"
  /\ effectRuns = 1
  /\ brushSelection = NoSelection
  /\ drawn = draw(GenesA, SliderRegion)
  /\ redrawPending = FALSE
  /\ selectedGene = NoGene
  /\ hoveredGene = NoGene
  /\ inThrottle = FALSE
  /\ pointerAt = Outside
  /\ lastPointer = [op |-> "none", target |-> "none", gene |-> NoGene,
                    selected |-> NoGene, hovered |-> NoGene, throttled |-> FALSE,
                    applied |-> 0]
  /\ fnIn = <<>>
  /\ fnOut = <<>>
  /\ chat = ChatMounted

\* SpecPointer never reaches the state GenesDrawnZoomed
GenesDrawnZoomedNotReached == ~GenesDrawnZoomed

InitInteraction ==
  /\ GenesDrawnZoomed
  /\ nEvents = MaxEvents - 1

\* the component from the state GenesDrawnZoomed on, with all its inputs
SpecInteraction == InitInteraction /\ [][NextInteraction]_vars

\* a hover event, a click on a gene or a click on a background
InteractionStep == PointerMoveStep \/ Click

\* a step of the pointer events, of the throttle timer or of their draw
PointerSideStep == InteractionStep \/ ThrottleTimeout \/ Redraw

\* C36: hover, gene-click and background-click events leave the committed
\* region and the gesture transform unchanged, and every other step (zoom,
\* drags, brush, slider, form, reset, their effects and transitions) leaves
\* hoveredGene and selectedGene unchanged
C36_RegionAndInteractionIndependent ==
  [][/\ InteractionStep => UNCHANGED <<zoomRegion, transform>>
     /\ ~PointerSideStep => UNCHANGED <<hoveredGene, selectedGene>>]_vars

\* a region was committed from the slider's view while one gene was selected
\* and another hovered, and both are still there
C36_Witness ==
  /\ effectsPending
  /\ drawn.region = SliderRegion
  /\ zoomRegion # SliderRegion
  /\ selectedGene \in Range(GenesA)
  /\ hoveredGene \in Range(GenesA)
  /\ hoveredGene # selectedGene
  /\ lastPointer.op \in {"move", "click"}

\* ---------------------------------------------------------------------------
\* Brush and the displayed region

\* a user brush that commits a region
BrushCommitStep == BrushEndStep /\ brushAccepted(lastEvent'.a, lastEvent'.b)

\* C37: a region committed by a brush on the scale band is a sub-interval of
\* the region displayed when the brush ended (start_new >= start_old,
\* end_new <= end_old, start_new < end_new) and lies inside [0, length]
C37_BrushZoomsIn ==
  [][BrushCommitStep =>
       /\ Ge(zoomRegion'[1], drawn.region[1])
       /\ Le(zoomRegion'[2], drawn.region[2])
       /\ Lt(zoomRegion'[1], zoomRegion'[2])
       /\ Le(Zero, zoomRegion'[1])
       /\ Le(zoomRegion'[2], Len0)]_vars

\* C37 for a brush over a displayed region with 0 <= start < end <= length
C37_BrushZoomsInOrdered ==
  [][(/\ BrushCommitStep
      /\ Le(Zero, drawn.region[1])
      /\ Lt(drawn.region[1], drawn.region[2])
      /\ Le(drawn.region[2], Len0)) =>
       /\ Ge(zoomRegion'[1], drawn.region[1])
       /\ Le(zoomRegion'[2], drawn.region[2])
       /\ Lt(zoomRegion'[1], zoomRegion'[2])
       /\ Le(Zero, zoomRegion'[1])
       /\ Le(zoomRegion'[2], Len0)]_vars

\* ---------------------------------------------------------------------------
\* Pan of the full view

\* C38: a 'drag' event of the chromosome bar while the committed region is
\* [0, length] commits [0, length], whatever the pixel delta and its sign
C38_PanOfFullViewFixed ==
  [][(PanDragStep /\ zoomRegion = FullRegion) => zoomRegion' = FullRegion]_vars

\* C38 for a gesture that started in the full view
C38_PanFromFullViewFixed ==
  [][(PanDragStep /\ drag.region = FullRegion) => zoomRegion' = FullRegion]_vars

\* a drag to the left and a drag to the right were handled in the full view
C38_Witness ==
  /\ lastEvent.op = "pan"
  /\ lastEvent.pre = FullRegion
  /\ drag.region = FullRegion
  /\ drag.moves = 2
  /\ Lt(lastEvent.a, Zero)
  /\ zoomRegion = FullRegion

\* ---------------------------------------------------------------------------
\* Editable fields after a commit

\* the effects of the render of the committed region have all run
EffectsDone == effectsPending /\ ~effectsPending'

\* C39: every change of the committed region, from any input path, is
\* followed by the effects of its render, and once they have run the start
\* and end fields show round(start) and round(end) of the committed region,
\* whatever text had been typed in them
C39_FieldsShowCommittedRegion ==
  [][/\ zoomRegion' # zoomRegion => effectsPending'
     /\ EffectsDone =>
          /\ editableStart' = roundToString(zoomRegion'[1])
          /\ editableEnd' = roundToString(zoomRegion'[2])]_vars

\* text was typed in the start field and not submitted, another input has
\* committed a region, and its effects are about to run
C39_Witness ==
  /\ effectsPending
  /\ committedBy \notin {"form", "none"}
  /\ lastEvent.op # "form"
  /\ editableStart \in StartTexts
  /\ editableStart # roundToString(zoomRegion[1])
  /\ editableStart # roundToString(drawn.region[1])
  /\ zoomRegion # drawn.region

\* ---------------------------------------------------------------------------
\* ChatbotWidget: sendMessage

\* most characters of the input, and most calls of sendMessage in a run
MaxInputLen == 2

MaxCalls == 2

Whitespace == {" ", "\n"}

InputChars == Whitespace \cup {"q"}

RECURSIVE TextsUpTo(_)
TextsUpTo(n) ==
  IF n = 0 THEN {<<>>}
  ELSE LET shorter == TextsUpTo(n - 1)
       IN  shorter \cup { Append(t, c) : t \in { u \in shorter : Len(u) = n - 1 },
                                         c \in InputChars }

InputTexts == TextsUpTo(MaxInputLen)

\* a sendMessage that never takes the input for blank
trimNone(text) == IF text = <<>> THEN <<"q">> ELSE text

RECURSIVE trimStart(_)
trimStart(text) ==
  IF text # <<>> /\ Head(text) \in Whitespace THEN trimStart(Tail(text)) ELSE text

RECURSIVE trimEnd(_)
trimEnd(text) ==
  IF text # <<>> /\ text[Len(text)] \in Whitespace
  THEN trimEnd(SubSeq(text, 1, Len(text) - 1))
  ELSE text

\* String.prototype.trim
trim(text) == trimEnd(trimStart(text))

\* values of the fields of the response body
Undefined == [type |-> "undefined", v |-> <<>>]

StringValue(v) == [type |-> "string", v |-> v]

ObjectValue(json) == [type |-> "object", v |-> json]

FieldValues ==
  {Undefined, StringValue(<<>>), StringValue(<<"text">>), ObjectValue(<<"{", "}">>)}

\* a value in a condition: undefined and '' are falsy
truthy(value) == value.type = "object" \/ (value.type = "string" /\ value.v # <<>>)

\* a value concatenated to a string
toString(value) ==
  IF value.type = "string" THEN value.v
  ELSE IF value.type = "object" THEN <<"[object Object]">>
  ELSE <<"undefined">>

\* JSON.stringify(value, null, 2) of an object: its JSON text
jsonStringify(value) == value.v

\* how the request ends: fetch rejects, res.json() rejects, the body is the
\* JSON null, or the body is an object with or without result and error
Outcomes ==
  { [kind |-> k, result |-> Undefined, error |-> Undefined] :
      k \in {"rejected", "notJson", "null"} }
    \cup { [kind |-> "object", result |-> r, error |-> e] :
             r \in FieldValues, e \in FieldValues }

\* the try block throws: fetch or res.json() rejected, or data is null and
\* data.result is a TypeError
throws(outcome) == outcome.kind # "object"

\* botReply of the try block
botReply(outcome) ==
  IF truthy(outcome.result)
  THEN (IF outcome.result.type = "string" THEN outcome.result.v
        ELSE jsonStringify(outcome.result))
  ELSE IF truthy(outcome.error)
  THEN <<"Error: ">> \o toString(outcome.error)
  ELSE <<"Sorry, I did not understand the response.">>

\* the bot message of the try block or of the catch block
replyMessage(outcome) ==
  IF throws(outcome)
  THEN Message("bot", <<"Error connecting to the backend.">>)
  ELSE Message("bot", botReply(outcome))

engineAndFn ==
  <<zoomRegion, transform, effectsPending, transition, editableStart,
    editableEnd, drag, genes, nEvents, lastEvent, committedBy, effectRuns,
    uiVars, viewVars, fnIn, fnOut>>

\* onChange of the textarea, which is disabled while loading
SetInput(text) ==
  /\ ~chat.loading
  /\ text # chat.input
  /\ chat' = [chat EXCEPT !.input = text]
  /\ UNCHANGED engineAndFn

\* sendMessage up to its first await, from the Send button or the Enter key;
\* both are out of reach while loading
SendMessage ==
  /\ ~chat.loading
  /\ chat.calls < MaxCalls
  /\ chat' = IF trim(chat.input) = <<>>
             THEN [chat EXCEPT !.calls = @ + 1]
             ELSE [chat EXCEPT !.messages = Append(@, Message("user", chat.input)),
                               !.loading = TRUE,
                               !.input = <<>>,
                               !.request = [phase |-> "awaiting", outcome |-> <<>>],
                               !.calls = @ + 1]
  /\ UNCHANGED engineAndFn

\* the request ends
Settle(outcome) ==
  /\ chat.request.phase = "awaiting"
  /\ chat' = [chat EXCEPT !.request = [phase |-> "settled", outcome |-> outcome]]
  /\ UNCHANGED engineAndFn

\* setMessages of the try block or of the catch block
Reply ==
  /\ chat.request.phase = "settled"
  /\ chat' = [chat EXCEPT !.messages = Append(@, replyMessage(chat.request.outcome)),
                          !.request = [phase |-> "replied", outcome |-> @.outcome]]
  /\ UNCHANGED engineAndFn

\* setLoading(false)
FinishSend ==
  /\ chat.request.phase = "replied"
  /\ chat' = [chat EXCEPT !.loading = FALSE, !.request = NoRequest]
  /\ UNCHANGED engineAndFn

NextChat ==
  \/ \E text \in InputTexts : SetInput(text)
  \/ SendMessage
  \/ \E outcome \in Outcomes : Settle(outcome)
  \/ Reply
  \/ FinishSend

\* the widget; a request ends, and the rest of sendMessage runs when it has
SpecChat ==
  /\ Init
  /\ [][NextChat]_vars
  /\ WF_vars(\E outcome \in Outcomes : Settle(outcome))
  /\ WF_vars(Reply)
  /\ WF_vars(FinishSend)

\* the messages of one sender
RECURSIVE CountFrom(_, _)
CountFrom(msgs, sender) ==
  IF msgs = <<>> THEN 0
  ELSE (IF Head(msgs).sender = sender THEN 1 ELSE 0) + CountFrom(Tail(msgs), sender)

\* the text has a character that is not white space
NonBlank(text) == \E i \in DOMAIN text : text[i] \notin Whitespace

\* a call of sendMessage
SendStep == SendMessage /\ chat'.calls = chat.calls + 1

\* C40: a call of sendMessage with non-blank input appends exactly one user
\* message and sets loading; a call with blank input changes nothing; every
\* request that ends, with a result, an error field, an unrecognised body or a
\* failure, is followed by exactly one bot message; and loading always
\* comes back to false, with one bot message per user message by then
C40_SendMessage ==
  /\ [][SendStep =>
          IF NonBlank(chat.input)
          THEN /\ chat'.messages = Append(chat.messages, Message("user", chat.input))
               /\ chat'.loading
          ELSE /\ chat'.messages = chat.messages
               /\ chat'.input = chat.input
               /\ chat'.loading = chat.loading
               /\ chat'.request = chat.request]_vars
  /\ [][(chat.loading /\ ~chat'.loading) =>
          /\ CountFrom(chat'.messages, "bot") = CountFrom(chat'.messages, "user") + 1
          /\ chat'.messages[Len(chat'.messages)].sender = "bot"
          /\ chat'.messages[Len(chat'.messages) - 1].sender = "user"]_vars
  /\ [](~chat.loading =>
          CountFrom(chat.messages, "bot") = CountFrom(chat.messages, "user") + 1)
  /\ (chat.loading ~> ~chat.loading)

\* a call with blank input was made, and a message was sent and answered
\* after a failed request
C40_Witness ==
  /\ ~chat.loading
  /\ chat.calls = 2
  /\ chat.messages =
       <<Message("bot", Greeting), Message("user", <<"q", " ">>),
         Message("bot", <<"Error connecting to the backend.">>)>>

====
